---- MODULE Spec2Model ----
(***************************************************************************)
(* kopichat-ai: a model of the live-transcription pipelines, the local     *)
(* transcription backend, the MIME detection and the command shell.        *)
(*                                                                         *)
(* Strings are sequences of one-character strings, so that trimming,       *)
(* case folding, joining and suffix extraction are computed, not assumed.  *)
(***************************************************************************)
EXTENDS Integers, Sequences, FiniteSets, TLC

VARIABLES
    \* ---- run_gemini_transcription_async (streaming pipeline) ----
    main,             \* position of the session coroutine
    geminiKey,        \* GEMINI_API_KEY is configured
    pya,              \* the PyAudio instance: "none" | "init" | "terminated"
    audio_queue,      \* asyncio.Queue(maxsize=5): sequence of chunk numbers
    audio_stream,     \* the nonlocal variable: "None" | "set"
    stream,           \* the device stream itself: "none" | "open" | "closed"
    listen,           \* position of the capture task listen_audio
    send,             \* position of the task send_audio
    recv,             \* position of the task receive_transcription
    data,             \* chunk read by listen_audio and not yet queued (0: none)
    msg,              \* message taken by send_audio and not yet sent (0: none)
    thread,           \* worker thread started by asyncio.to_thread
    text_buffer,      \* list of transcript fragments
    last_line_length, \* length of the partial line last displayed
    lines,            \* finalized transcript lines printed so far
    captured,         \* number of chunks read from the microphone
    forwarded,        \* chunk numbers passed to session.send_realtime_input
    arrivedLog,       \* per finalized line: the fragments as they arrived
    arrived,          \* non-empty fragments arrived since the last flush
    status_line,      \* characters shown on the current terminal line
    redraw,           \* the last redraw: [fill, shown], the spaces emitted
                      \* and the length of the line they were emitted over
    response,         \* the response last handled, when it is observed
    outcome,          \* how the session coroutine ended
    \* ---- run_mlx_transcription / run_groq_transcription (chunked loop) ----
    backend,          \* "mlx" | "groq"
    groqKey,          \* GROQ_API_KEY is configured
    phase,            \* "Setup" | "Recording" | "Transcribing" | "Rendering"
                      \* | "Stopped" | "Raised"
    rec,              \* position inside record_chunk
    pyaLive,          \* PyAudio instances created and not terminated
    mic,              \* the stream opened by record_chunk
    window,           \* number of the audio window in hand (0: none)
    nWindows,         \* windows captured so far
    result,           \* outcome of the transcription call, to be rendered
    submitted,        \* windows passed to a transcription call, in order
    rendered,         \* what each cycle printed: [win, kind]
    deviceUsed,       \* an input device has been queried or opened
    interrupted,      \* the operator has sent an interrupt
    raised,           \* the exception that left the session function
    \* ---- transcribe_audio_bytes_mlx ----
    mlx_pc,           \* position inside the function
    temp_file,        \* the temporary WAV file: "none" | "exists" | "deleted"
    model_output,     \* result of mlx_whisper.transcribe: [has_text, text]
    mlx_return,       \* the text returned
    mlx_end,          \* "none" | "returned" | the exception raised
    \* ---- get_audio_mime_type ----
    file_path,        \* the argument
    mime_type,        \* the MIME type returned
    mime_end,         \* "none" | "returned" | "ValueError"
    mime_msg,         \* what the error message names: [ext, formats]
    \* ---- main.py: run_interactive / run_command_line ----
    mode,             \* "interactive" | "oneshot"
    shell_pc,         \* "prompt" | "command" | "exited" | "crashed"
    command,          \* the command word
    args,             \* its argument list
    printed,          \* what the last command printed
    crash,            \* the uncaught exception that ended the process
    \* ---- record_chunk / record_audio (the capture of one recording) ----
    cap_fn,           \* "record_chunk" | "record_audio"
    cap_pc,           \* position inside the function
    sample_rate,      \* the rate R in Hz
    duration_seconds, \* the duration D, in units of 1/DurationUnit second
    total_chunks,     \* int(sample_rate / CHUNK_SIZE * duration_seconds)
    frames,           \* number of chunks read and appended so far
    wav_samples,      \* samples written to the WAV payload
    \* ---- analyze_audio ----
    an_pc,            \* position inside the function
    an_exists,        \* os.path.exists(file_path)
    file_size,        \* os.path.getsize(file_path), in bytes
    an_key,           \* GEMINI_API_KEY is configured
    client,           \* "None" | "given" | "created"
    methods,          \* the input methods called, in order
    contacted,        \* a request has been sent to the backend
    an_end,           \* "none" | "returned" | the exception raised
    \* ---- analyze_audio_upload ----
    up_pc,            \* position inside the function
    wait_for_processing, \* the argument
    max_wait_seconds, \* the argument
    elapsed,          \* time.time() - start_time, in seconds
    file_state,       \* uploaded_file.state.name as last fetched
    polls,            \* client.files.get calls made
    generated,        \* file states at each generate_content request
    up_end,           \* "none" | "returned" | the exception raised
    \* ---- main.py: handle_live / handle_live_file (option parsing) ----
    opt_cmd,          \* "live" | "live_file"
    opt_args,         \* the argument list of the command
    opt_pc,           \* "start" | "parse" | "done"
    opt_i,            \* index of the next argument of the for loop
    opt_backend,      \* the local variable backend
    opt_model,        \* the local variable model
    called            \* the backend function called and the model it got

streamVars == <<main, geminiKey, pya, audio_queue, audio_stream, stream, listen,
                send, recv, data, msg, thread, text_buffer, last_line_length,
                lines, captured, forwarded, arrivedLog, arrived, status_line,
                redraw, response, outcome>>

sessVars == <<main, geminiKey, pya, outcome>>
devVars == <<audio_stream, stream, thread>>
queueVars == <<audio_queue, listen, send, data, msg, captured, forwarded>>
recvVars == <<recv, text_buffer, last_line_length, lines, arrivedLog, arrived,
              status_line, redraw, response>>

chunkVars == <<backend, groqKey, phase, rec, pyaLive, mic, window, nWindows,
               result, submitted, rendered, deviceUsed, interrupted, raised>>

mlxVars == <<mlx_pc, temp_file, model_output, mlx_return, mlx_end>>

mimeVars == <<file_path, mime_type, mime_end, mime_msg>>

shellVars == <<mode, shell_pc, command, args, printed, crash>>

captureVars == <<cap_fn, cap_pc, sample_rate, duration_seconds, total_chunks,
                 frames, wav_samples>>

analyzeVars == <<an_pc, an_exists, file_size, an_key, client, methods,
                 contacted, an_end>>

uploadVars == <<up_pc, wait_for_processing, max_wait_seconds, elapsed,
                file_state, polls, generated, up_end>>

\* the file functions, which the pipelines and the shell model leave alone
fileVars == <<captureVars, analyzeVars, uploadVars>>

optVars == <<opt_cmd, opt_args, opt_pc, opt_i, opt_backend, opt_model, called>>

vars == <<streamVars, chunkVars, mlxVars, mimeVars, shellVars, fileVars, optVars>>

\* what the streaming pipeline leaves alone
notStream == <<chunkVars, mlxVars, mimeVars, shellVars, fileVars, optVars>>

\* what the chunked loop leaves alone
notChunked == <<streamVars, mlxVars, mimeVars, shellVars, fileVars, optVars>>

\* what transcribe_audio_bytes_mlx leaves alone
notMlx == <<streamVars, chunkVars, mimeVars, shellVars, fileVars, optVars>>

\* what get_audio_mime_type leaves alone
notMime == <<streamVars, chunkVars, mlxVars, shellVars, fileVars, optVars>>

\* what the command shell leaves alone
notShell == <<streamVars, chunkVars, mlxVars, mimeVars, fileVars, optVars>>

\* what record_chunk / record_audio leave alone
notCapture == <<streamVars, chunkVars, mlxVars, mimeVars, shellVars,
                analyzeVars, uploadVars, optVars>>

\* what analyze_audio leaves alone
notAnalyze == <<streamVars, chunkVars, mlxVars, mimeVars, shellVars,
                captureVars, uploadVars, optVars>>

\* what analyze_audio_upload leaves alone
notUpload == <<streamVars, chunkVars, mlxVars, mimeVars, shellVars,
               captureVars, analyzeVars, optVars>>

\* what the option parsing of handle_live / handle_live_file leaves alone
notOptions == <<streamVars, chunkVars, mlxVars, mimeVars, shellVars, fileVars>>

\* ------------------------------------------------------------------------
\* Bounds of the model
\* ------------------------------------------------------------------------
MaxChunks == 6
MaxFragments == 3
MaxWindows == 2
MaxTextLen == 4
MaxPathLen == 5
MaxTokenLen == 2
MaxArgs == 2
MaxDuration == 50
MaxWait == 4

\* ------------------------------------------------------------------------
\* Strings
\* ------------------------------------------------------------------------
Whitespace == {" "}

RECURSIVE LStrip(_)
LStrip(s) == IF s # <<>> /\ Head(s) \in Whitespace THEN LStrip(Tail(s)) ELSE s

RECURSIVE RStrip(_)
RStrip(s) ==
    IF s # <<>> /\ s[Len(s)] \in Whitespace
    THEN RStrip(SubSeq(s, 1, Len(s) - 1))
    ELSE s

\* str.strip()
Strip(s) == RStrip(LStrip(s))

\* "".join(parts)
RECURSIVE Join(_)
Join(parts) == IF parts = <<>> THEN <<>> ELSE Head(parts) \o Join(Tail(parts))

\* ------------------------------------------------------------------------
\* Streaming pipeline: run_gemini_transcription_async
\* ------------------------------------------------------------------------
QueueMaxSize == 5

\* transcript.text values a response may carry; <<>> is the empty text
FragmentSet == {<<"a">>, <<" ", "b">>}

\* server responses: server_content present, input_transcription present,
\* its text, and the turn_complete flag
Responses ==
    [sc : BOOLEAN, it : BOOLEAN, text : FragmentSet \cup {<<>>}, tc : BOOLEAN]

\* the marker and space that precede the text in f"📝 {current_text}"
Marker == <<"#", " ">>

TasksLive == main \in {"running", "interrupted"}

\* transcribe_audio_bytes_mlx not called
IdleMlx ==
    /\ mlx_pc = "idle"
    /\ temp_file = "none"
    /\ model_output = [has_text |-> FALSE, text |-> <<>>]
    /\ mlx_return = <<>>
    /\ mlx_end = "none"

\* get_audio_mime_type not called
IdleMime ==
    /\ file_path = <<>>
    /\ mime_type = [top |-> "", sub |-> ""]
    /\ mime_end = "idle"
    /\ mime_msg = <<>>

\* record_chunk / record_audio not called on their own
IdleCapture ==
    /\ cap_fn = "none"
    /\ cap_pc = "idle"
    /\ sample_rate = 0
    /\ duration_seconds = 0
    /\ total_chunks = 0
    /\ frames = 0
    /\ wav_samples = 0

\* analyze_audio not called
IdleAnalyze ==
    /\ an_pc = "idle"
    /\ an_exists = FALSE
    /\ file_size = 0
    /\ an_key = FALSE
    /\ client = "None"
    /\ methods = <<>>
    /\ contacted = FALSE
    /\ an_end = "none"

\* analyze_audio_upload not called
IdleUpload ==
    /\ up_pc = "idle"
    /\ wait_for_processing = FALSE
    /\ max_wait_seconds = 0
    /\ elapsed = 0
    /\ file_state = "none"
    /\ polls = 0
    /\ generated = <<>>
    /\ up_end = "none"

\* none of the file functions is called
IdleFiles == IdleCapture /\ IdleAnalyze /\ IdleUpload

\* handle_live / handle_live_file not called on their own
IdleOptions ==
    /\ opt_cmd = "none"
    /\ opt_args = <<>>
    /\ opt_pc = "idle"
    /\ opt_i = 0
    /\ opt_backend = ""
    /\ opt_model = ""
    /\ called = [fn |-> "none", backend |-> "", model |-> ""]

\* the pipelines run without the command shell around them
IdleShell ==
    /\ mode = "none"
    /\ shell_pc = "idle"
    /\ command = ""
    /\ args = <<>>
    /\ printed = "nothing"
    /\ crash = "none"

\* the chunked loop when the gemini backend is selected: never entered
IdleChunked ==
    /\ backend = "gemini"
    /\ groqKey = FALSE
    /\ phase = "Idle"
    /\ rec = "idle"
    /\ pyaLive = 0
    /\ mic = "none"
    /\ window = 0
    /\ nWindows = 0
    /\ result = [err |-> FALSE, text |-> <<>>]
    /\ submitted = <<>>
    /\ rendered = <<>>
    /\ deviceUsed = FALSE
    /\ interrupted = FALSE
    /\ raised = [err |-> "none", from |-> "none"]

\* the streaming pipeline when another backend is selected: never entered
IdleStream ==
    /\ main = "idle"
    /\ geminiKey = FALSE
    /\ pya = "none"
    /\ audio_queue = <<>>
    /\ audio_stream = "None"
    /\ stream = "none"
    /\ listen = "notstarted"
    /\ send = "notstarted"
    /\ recv = "notstarted"
    /\ data = 0
    /\ msg = 0
    /\ thread = "none"
    /\ text_buffer = <<>>
    /\ last_line_length = 0
    /\ lines = <<>>
    /\ captured = 0
    /\ forwarded = <<>>
    /\ arrivedLog = <<>>
    /\ arrived = <<>>
    /\ status_line = <<>>
    /\ redraw = [fill |-> 0, shown |-> 0]
    /\ response = [sc |-> FALSE, it |-> FALSE, text |-> <<>>, tc |-> FALSE]
    /\ outcome = "none"

InitStream ==
    /\ main = "start"
    /\ geminiKey \in BOOLEAN
    /\ pya = "none"
    /\ audio_queue = <<>>
    /\ audio_stream = "None"
    /\ stream = "none"
    /\ listen = "notstarted"
    /\ send = "notstarted"
    /\ recv = "notstarted"
    /\ data = 0
    /\ msg = 0
    /\ thread = "none"
    /\ text_buffer = <<>>
    /\ last_line_length = 0
    /\ lines = <<>>
    /\ captured = 0
    /\ forwarded = <<>>
    /\ arrivedLog = <<>>
    /\ arrived = <<>>
    /\ status_line = <<>>
    /\ redraw = [fill |-> 0, shown |-> 0]
    /\ response = [sc |-> FALSE, it |-> FALSE, text |-> <<>>, tc |-> FALSE]
    /\ outcome = "none"

\* pya = pyaudio.PyAudio(); audio_queue = asyncio.Queue(maxsize=5); ...
GeminiStart ==
    /\ main = "start"
    /\ pya' = "init"
    /\ main' = "client"
    /\ UNCHANGED <<notStream, geminiKey, outcome, devVars, queueVars, recvVars>>

\* a client created without looking at the credential
GetGeminiClientUnchecked ==
    /\ main = "client"
    /\ main' = "connect"
    /\ UNCHANGED <<notStream, geminiKey, outcome, pya, devVars, queueVars,
                   recvVars>>

\* client = get_gemini_client(): outside the try, so a ConfigurationError
\* leaves the coroutine without running the finally block
GetGeminiClient ==
    /\ main = "client"
    /\ IF geminiKey
       THEN main' = "connect" /\ outcome' = outcome
       ELSE main' = "raised" /\ outcome' = "ConfigurationError"
    /\ UNCHANGED <<notStream, geminiKey, pya, devVars, queueVars, recvVars>>

\* async with client.aio.live.connect(...) as session, then the TaskGroup
\* creates the three tasks; a failed connection goes to the finally block
Connect ==
    /\ main = "connect"
    /\ \/ /\ main' = "running"
          /\ listen' = "lookup"
          /\ send' = "get"
          /\ recv' = "receive"
          /\ outcome' = outcome
       \/ /\ main' = "finally"
          /\ outcome' = "ConnectError"
          /\ UNCHANGED <<listen, send, recv>>
    /\ UNCHANGED <<notStream, geminiKey, pya, devVars, audio_queue, data, msg, captured,
                   forwarded, text_buffer, last_line_length, lines,
                   arrivedLog, arrived,
                   status_line, redraw, response>>

\* listen_audio: mic_info = pya.get_default_input_device_info(), then
\* await asyncio.to_thread(pya.open, ...)
ListenLookup ==
    /\ TasksLive
    /\ listen = "lookup"
    /\ \/ listen' = "opening" /\ thread' = "open"
       \/ listen' = "failed" /\ thread' = thread
    /\ UNCHANGED <<notStream, sessVars, audio_stream, stream, audio_queue, send, data,
                   msg, captured, forwarded, recvVars>>

\* the worker thread running pya.open ends.  While listen_audio still
\* awaits it, the task assigns audio_stream and starts the first read; a
\* cancelled task leaves a successfully opened stream unassigned.
ThreadOpenDone ==
    /\ thread = "open"
    /\ \/ /\ pya = "init"
          /\ stream' = "open"
          /\ IF listen = "opening"
             THEN audio_stream' = "set" /\ listen' = "reading" /\ thread' = "read"
             ELSE audio_stream' = audio_stream /\ listen' = listen /\ thread' = "none"
       \/ /\ stream' = stream
          /\ audio_stream' = audio_stream
          /\ thread' = "none"
          /\ listen' = IF listen = "opening" THEN "failed" ELSE listen
    /\ UNCHANGED <<notStream, sessVars, audio_queue, send, data, msg, captured,
                   forwarded, recvVars>>

\* the worker thread running audio_stream.read ends: the task holds the
\* chunk and goes on to await audio_queue.put; a read error fails the task;
\* a cancelled task never sees the result
ThreadReadDone ==
    /\ thread = "read"
    /\ thread' = "none"
    /\ IF listen = "reading"
       THEN \/ /\ captured < MaxChunks
               /\ captured' = captured + 1
               /\ data' = captured + 1
               /\ listen' = "putting"
            \/ /\ listen' = "failed"
               /\ UNCHANGED <<captured, data>>
       ELSE UNCHANGED <<captured, data, listen>>
    /\ UNCHANGED <<notStream, sessVars, audio_stream, stream, audio_queue, send, msg,
                   forwarded, recvVars>>

\* a put that does not wait for room in the queue
ListenPutNoWait ==
    /\ TasksLive
    /\ listen = "putting"
    /\ audio_queue' = Append(audio_queue, data)
    /\ data' = 0
    /\ listen' = "reading"
    /\ thread' = "read"
    /\ UNCHANGED <<notStream, sessVars, audio_stream, stream, send, msg, captured,
                   forwarded, recvVars>>

\* await audio_queue.put({"data": data, ...}) completes once the queue has
\* room, and the loop starts the next read in a worker thread
ListenPut ==
    /\ TasksLive
    /\ listen = "putting"
    /\ Len(audio_queue) < QueueMaxSize
    /\ audio_queue' = Append(audio_queue, data)
    /\ data' = 0
    /\ listen' = "reading"
    /\ thread' = "read"
    /\ UNCHANGED <<notStream, sessVars, audio_stream, stream, send, msg, captured,
                   forwarded, recvVars>>

\* a get that takes the newest message of the queue
SendGetNewest ==
    /\ TasksLive
    /\ send = "get"
    /\ audio_queue # <<>>
    /\ msg' = audio_queue[Len(audio_queue)]
    /\ audio_queue' = SubSeq(audio_queue, 1, Len(audio_queue) - 1)
    /\ send' = "sending"
    /\ UNCHANGED <<notStream, sessVars, devVars, listen, data, captured, forwarded,
                   recvVars>>

\* a get that waits until the queue is full
SendGetWhenFull ==
    /\ TasksLive
    /\ send = "get"
    /\ Len(audio_queue) = QueueMaxSize
    /\ msg' = Head(audio_queue)
    /\ audio_queue' = Tail(audio_queue)
    /\ send' = "sending"
    /\ UNCHANGED <<notStream, sessVars, devVars, listen, data, captured, forwarded,
                   recvVars>>

\* send_audio: msg = await audio_queue.get()
SendGet ==
    /\ TasksLive
    /\ send = "get"
    /\ audio_queue # <<>>
    /\ msg' = Head(audio_queue)
    /\ audio_queue' = Tail(audio_queue)
    /\ send' = "sending"
    /\ UNCHANGED <<notStream, sessVars, devVars, listen, data, captured, forwarded,
                   recvVars>>

\* send_audio: await session.send_realtime_input(audio=msg) returns or raises
SendDone ==
    /\ TasksLive
    /\ send = "sending"
    /\ \/ /\ forwarded' = Append(forwarded, msg)
          /\ send' = "get"
       \/ /\ forwarded' = forwarded
          /\ send' = "failed"
    /\ msg' = 0
    /\ UNCHANGED <<notStream, sessVars, devVars, audio_queue, listen, data, captured,
                   recvVars>>

\* the response carries a transcript fragment with a non-empty text
HasFragment(resp) == resp.sc /\ resp.it /\ resp.text # <<>>

\* a fragment put in front of the buffer instead of at its end
AppendFragmentInFront(buf, resp) ==
    IF HasFragment(resp) THEN <<resp.text>> \o buf ELSE buf

\* receive_transcription: text_buffer.append(transcript.text)
AppendFragment(buf, resp) ==
    IF HasFragment(resp) THEN Append(buf, resp.text) ELSE buf

\* a flush that does not look whether the buffer holds anything
FlushesEmptyToo(buf, resp) == resp.sc /\ resp.tc

\* receive_transcription: server_content.turn_complete and text_buffer
Flushes(buf, resp) == resp.sc /\ resp.tc /\ buf # <<>>

\* final_text = "".join(text_buffer).strip()
FinalText(buf) == Strip(Join(buf))

\* n spaces
Spaces(n) == [i \in 1..n |-> " "]

\* the terminal line after "\r" and the text s are printed over the line old
Overprint(old, s) ==
    [i \in 1..(IF Len(old) > Len(s) THEN Len(old) ELSE Len(s)) |->
        IF i <= Len(s) THEN s[i] ELSE old[i]]

\* display_str = f"<marker> {current_text}"
DisplayStr(buf) == Marker \o FinalText(buf)

\* a length that counts the text without the marker in front of it
DisplayLengthOfText(buf) == Len(FinalText(buf))

\* last_line_length = len(display_str)
DisplayLength(buf) == Len(DisplayStr(buf))

\* receive_transcription: one response of the stream, handled without an
\* await in between: the fragment is appended and the partial line redrawn,
\* then a turn_complete flushes the buffer as one finalized line
HandleResponse(resp) ==
    LET buf1 == AppendFragment(text_buffer, resp)
        len1 == IF HasFragment(resp)
                THEN DisplayLength(buf1)
                ELSE last_line_length
        arr1 == IF HasFragment(resp) THEN Append(arrived, resp.text) ELSE arrived
        \* print(f"{clear_str}{display_str}", end="")
        line1 == IF HasFragment(resp)
                 THEN Overprint(Overprint(status_line, Spaces(last_line_length)),
                                DisplayStr(buf1))
                 ELSE status_line
        draw1 == IF HasFragment(resp)
                 THEN [fill |-> last_line_length, shown |-> Len(status_line)]
                 ELSE redraw
    IN  /\ TasksLive
        /\ recv = "receive"
        /\ Len(Join(arrivedLog)) + Len(arr1) <= MaxFragments
        /\ IF Flushes(buf1, resp)
           THEN /\ lines' = Append(lines, FinalText(buf1))
                /\ text_buffer' = <<>>
                /\ last_line_length' = 0
                /\ arrivedLog' = Append(arrivedLog, arr1)
                /\ arrived' = <<>>
                \* print(f"{clear_str}<marker> {final_text}"): ends the line
                /\ status_line' = <<>>
                /\ redraw' = [fill |-> len1, shown |-> Len(line1)]
           ELSE /\ lines' = lines
                /\ text_buffer' = buf1
                /\ last_line_length' = len1
                /\ arrivedLog' = arrivedLog
                /\ arrived' = arr1
                /\ status_line' = line1
                /\ redraw' = draw1
        /\ UNCHANGED <<notStream, sessVars, devVars, queueVars, recv>>

\* receive_transcription handling one response, in the full pipeline
Receive(resp) == HandleResponse(resp) /\ response' = response

\* receive_transcription handling one response, the response being kept
\* for observation
ReceiveObserved(resp) == HandleResponse(resp) /\ response' = resp

\* the response stream raises (connection lost)
ReceiveFail ==
    /\ TasksLive
    /\ recv = "receive"
    /\ recv' = "failed"
    /\ UNCHANGED <<notStream, sessVars, devVars, queueVars, text_buffer,
                   last_line_length, lines, arrivedLog, arrived,
                   status_line, redraw, response>>

TaskFailed == "failed" \in {listen, send, recv}

CancelTask(t) == IF t = "failed" THEN t ELSE "cancelled"

\* SIGINT under asyncio.run: the runner cancels the main task
Interrupt ==
    /\ \/ main = "running" /\ main' = "interrupted" /\ outcome' = outcome
       \/ main = "connect" /\ main' = "finally" /\ outcome' = "cancelled"
    /\ UNCHANGED <<notStream, geminiKey, pya, devVars, queueVars, recvVars>>

\* a task group whose exit reports a cancellation whatever ended it
TaskGroupExitSwallowing ==
    /\ \/ main = "interrupted"
       \/ main = "running" /\ TaskFailed
    /\ main' = "finally"
    /\ outcome' = "cancelled"
    /\ listen' = CancelTask(listen)
    /\ send' = CancelTask(send)
    /\ recv' = CancelTask(recv)
    /\ data' = 0
    /\ msg' = 0
    /\ UNCHANGED <<notStream, geminiKey, pya, devVars, audio_queue, captured, forwarded,
                   text_buffer, last_line_length, lines, arrivedLog, arrived,
                   status_line, redraw, response>>

\* TaskGroup.__aexit__: a failed task, or the cancellation of the main task,
\* cancels the remaining tasks and waits for them; worker threads go on.
\* The errors of the tasks, if any, are raised as an exception group,
\* otherwise the CancelledError, which the coroutine swallows.
TaskGroupExit ==
    /\ \/ main = "interrupted"
       \/ main = "running" /\ TaskFailed
    /\ main' = "finally"
    /\ outcome' = IF TaskFailed THEN "ExceptionGroup" ELSE "cancelled"
    /\ listen' = CancelTask(listen)
    /\ send' = CancelTask(send)
    /\ recv' = CancelTask(recv)
    /\ data' = 0
    /\ msg' = 0
    /\ UNCHANGED <<notStream, geminiKey, pya, devVars, audio_queue, captured, forwarded,
                   text_buffer, last_line_length, lines, arrivedLog, arrived,
                   status_line, redraw, response>>

\* a finally block that prints the buffered text before stopping
FinallyBlockFlushing ==
    /\ main = "finally"
    /\ stream' = IF audio_stream = "set" \/ stream = "open" THEN "closed" ELSE stream
    /\ pya' = "terminated"
    /\ main' = IF outcome = "cancelled" THEN "stopped" ELSE "raised"
    /\ lines' = IF text_buffer # <<>>
                THEN Append(lines, FinalText(text_buffer))
                ELSE lines
    /\ UNCHANGED <<notStream, geminiKey, outcome, audio_stream, thread, queueVars, recv,
                   text_buffer, last_line_length, arrivedLog, arrived,
                   status_line, redraw, response>>

\* finally: if audio_stream: audio_stream.close(); pya.terminate(), which
\* also closes a stream of this instance that is still open
FinallyBlock ==
    /\ main = "finally"
    /\ stream' = IF audio_stream = "set" \/ stream = "open" THEN "closed" ELSE stream
    /\ pya' = "terminated"
    /\ main' = IF outcome = "cancelled" THEN "stopped" ELSE "raised"
    /\ UNCHANGED <<notStream, geminiKey, outcome, audio_stream, thread, queueVars,
                   recvVars>>

NextStream ==
    \/ GeminiStart
    \/ GetGeminiClient
    \/ Connect
    \/ ListenLookup
    \/ ThreadOpenDone
    \/ ThreadReadDone
    \/ ListenPut
    \/ SendGet
    \/ SendDone
    \/ \E resp \in Responses : Receive(resp)
    \/ ReceiveFail
    \/ Interrupt
    \/ TaskGroupExit
    \/ FinallyBlock

\* run_live_transcription(backend="gemini")
StartStream == InitStream /\ IdleChunked /\ IdleMlx /\ IdleMime /\ IdleShell /\ IdleFiles /\ IdleOptions

SpecStream == StartStream /\ [][NextStream]_vars

\* the session with only the receive task scheduled, its responses observed
NextReceive ==
    \/ GeminiStart
    \/ GetGeminiClient
    \/ Connect
    \/ \E resp \in Responses : ReceiveObserved(resp)

SpecReceive == StartStream /\ [][NextReceive]_vars

\* ------------------------------------------------------------------------
\* Properties of the streaming pipeline
\* ------------------------------------------------------------------------

\* every chunk read so far, in the order read: those forwarded, the one
\* being sent, those queued, the one waiting to be queued
InPipeline ==
    forwarded \o (IF msg # 0 THEN <<msg>> ELSE <<>>) \o audio_queue
              \o (IF data # 0 THEN <<data>> ELSE <<>>)

\* C1: the audio queue never holds more than 5 messages; a capture task
\* that finds it full keeps its chunk and waits (the chunk is neither
\* dropped nor an error): while the tasks run and no send has failed, every
\* chunk read is forwarded, being sent, queued, or held by the waiting
\* capture task, in capture order.
C1_QueueBoundedPutBlocks ==
    /\ Len(audio_queue) <= QueueMaxSize
    /\ (listen = "putting" => data = captured /\ data # 0)
    /\ (TasksLive /\ send # "failed"
           => InPipeline = [i \in 1..captured |-> i])

\* C1 witness: the queue is full and the capture task waits with a chunk
C1_Witness ==
    /\ main = "running"
    /\ Len(audio_queue) = QueueMaxSize
    /\ listen = "putting"
    /\ data # 0

\* C5: once the session is cancelled by an operator interrupt, no finalized
\* line is printed any more (buffered text is discarded), and when it has
\* stopped the three tasks are cancelled, the stream assigned to
\* audio_stream is closed, no stream is open and PyAudio is terminated.
C5_CancelTearsDownAndDiscards ==
    /\ [](main = "stopped"
            => /\ {listen, send, recv} \subseteq {"cancelled", "notstarted"}
               /\ (audio_stream = "set" => stream = "closed")
               /\ stream # "open"
               /\ pya = "terminated")
    /\ [][(main \in {"finally", "stopped"} /\ outcome = "cancelled")
            => lines' = lines]_vars

\* C5 witness: stopped after an interrupt with text still in the buffer
C5_Witness ==
    /\ main = "stopped"
    /\ text_buffer # <<>>
    /\ audio_stream = "set"
    /\ stream = "closed"
    /\ recv = "cancelled"

\* C6 as stated: the buffer holds the fragments in arrival order and every
\* finalized line is exactly their concatenation.
C6_LineIsRawConcatenation ==
    /\ text_buffer = arrived
    /\ Len(lines) = Len(arrivedLog)
    /\ \A i \in 1..Len(lines) : lines[i] = Join(arrivedLog[i])

\* C6 amended: the buffer holds the non-empty fragments in arrival order,
\* and every finalized line is their concatenation in arrival order with
\* leading and trailing whitespace trimmed.
C6_LineIsTrimmedConcatenation ==
    /\ text_buffer = arrived
    /\ Len(lines) = Len(arrivedLog)
    /\ \A i \in 1..Len(lines) : lines[i] = Strip(Join(arrivedLog[i]))

\* C6 witness: a line finalized from two fragments, trimmed
C6_Witness ==
    /\ Len(lines) >= 1
    /\ Len(arrivedLog[1]) = 2
    /\ lines[1] # Join(arrivedLog[1])
    /\ lines[1] = <<"b", "a">>

\* ------------------------------------------------------------------------
\* Chunked live loop: run_mlx_transcription / run_groq_transcription
\* ------------------------------------------------------------------------

\* texts a transcription call may return
TextSet == {<<>>, <<" ">>, <<"a">>}

NoError == [err |-> "none", from |-> "none"]

InitChunked ==
    /\ backend \in {"mlx", "groq"}
    /\ groqKey \in BOOLEAN
    /\ phase = "Setup"
    /\ rec = "idle"
    /\ pyaLive = 0
    /\ mic = "none"
    /\ window = 0
    /\ nWindows = 0
    /\ result = [err |-> FALSE, text |-> <<>>]
    /\ submitted = <<>>
    /\ rendered = <<>>
    /\ deviceUsed = FALSE
    /\ interrupted = FALSE
    /\ raised = NoError

\* pya = pyaudio.PyAudio(); mic_info = pya.get_default_input_device_info();
\* pya.terminate(): the first statements of both session functions, before
\* the try.  A failed lookup leaves the function with the instance alive.
Setup ==
    /\ phase = "Setup"
    /\ deviceUsed' = TRUE
    /\ \/ phase' = "Recording" /\ UNCHANGED <<pyaLive, raised>>
       \/ /\ phase' = "Raised"
          /\ pyaLive' = pyaLive + 1
          /\ raised' = [err |-> "IOError", from |-> "setup"]
    /\ UNCHANGED <<notChunked, backend, groqKey, rec, mic, window, nWindows,
                   result, submitted, rendered, interrupted>>

\* record_chunk: pya = pyaudio.PyAudio()
RecordStart ==
    /\ phase = "Recording"
    /\ rec = "idle"
    /\ pyaLive' = pyaLive + 1
    /\ rec' = "lookup"
    /\ UNCHANGED <<notChunked, backend, groqKey, phase, mic, window, nWindows,
                   result, submitted, rendered, deviceUsed, interrupted,
                   raised>>

\* an exception inside record_chunk: its finally terminates the instance
\* (closing a stream still open); the call is outside the inner try of the
\* loop, whose outer try handles KeyboardInterrupt only
RecordChunkRaises ==
    /\ pyaLive' = pyaLive - 1
    /\ mic' = IF mic = "open" THEN "closed" ELSE mic
    /\ rec' = "idle"
    /\ phase' = "Raised"
    /\ raised' = [err |-> "IOError", from |-> "record_chunk"]
    /\ UNCHANGED <<window, nWindows>>

\* record_chunk: mic_info = pya.get_default_input_device_info()
RecordLookup ==
    /\ phase = "Recording"
    /\ rec = "lookup"
    /\ deviceUsed' = TRUE
    /\ \/ rec' = "open" /\ UNCHANGED <<pyaLive, mic, phase, raised, window, nWindows>>
       \/ RecordChunkRaises
    /\ UNCHANGED <<notChunked, backend, groqKey, result, submitted, rendered,
                   interrupted>>

\* record_chunk: stream = pya.open(...)
RecordOpen ==
    /\ phase = "Recording"
    /\ rec = "open"
    /\ \/ /\ rec' = "read"
          /\ mic' = "open"
          /\ UNCHANGED <<pyaLive, phase, raised, window, nWindows>>
       \/ RecordChunkRaises
    /\ UNCHANGED <<notChunked, backend, groqKey, result, submitted, rendered,
                   deviceUsed, interrupted>>

\* a record_chunk that returns the window without closing its stream
RecordReadLeavingOpen ==
    /\ phase = "Recording"
    /\ rec = "read"
    /\ \/ /\ nWindows < MaxWindows
          /\ mic' = mic
          /\ pyaLive' = pyaLive
          /\ rec' = "idle"
          /\ nWindows' = nWindows + 1
          /\ window' = nWindows + 1
          /\ phase' = "Transcribing"
          /\ raised' = raised
       \/ RecordChunkRaises
    /\ UNCHANGED <<notChunked, backend, groqKey, result, submitted, rendered,
                   deviceUsed, interrupted>>

\* record_chunk: the read loop, stop_stream, close, terminate, the WAV
\* framing and the return of the window
RecordRead ==
    /\ phase = "Recording"
    /\ rec = "read"
    /\ \/ /\ nWindows < MaxWindows
          /\ mic' = "closed"
          /\ pyaLive' = pyaLive - 1
          /\ rec' = "idle"
          /\ nWindows' = nWindows + 1
          /\ window' = nWindows + 1
          /\ phase' = "Transcribing"
          /\ raised' = raised
       \/ RecordChunkRaises
    /\ UNCHANGED <<notChunked, backend, groqKey, result, submitted, rendered,
                   deviceUsed, interrupted>>

\* outcomes of transcribe_audio_bytes (get_groq_client raises without a
\* key; the request returns a text or raises) and of
\* transcribe_audio_bytes_mlx (returns a trimmed text or raises)
TranscribeOutcomes ==
    IF backend = "groq" /\ ~groqKey
    THEN {[err |-> TRUE, text |-> <<>>]}
    ELSE {[err |-> TRUE, text |-> <<>>]}
         \cup {[err |-> FALSE, text |-> t] :
                 t \in {u \in TextSet : backend = "groq" \/ Strip(u) = u}}

\* a transcription call whose error is not caught in the iteration
TranscribeUncaught ==
    /\ phase = "Transcribing"
    /\ submitted' = Append(submitted, window)
    /\ \E r \in TranscribeOutcomes :
         IF r.err
         THEN /\ phase' = "Raised"
              /\ raised' = [err |-> "Exception", from |-> "transcribe"]
              /\ result' = result
         ELSE /\ phase' = "Rendering"
              /\ raised' = raised
              /\ result' = r
    /\ UNCHANGED <<notChunked, backend, groqKey, rec, pyaLive, mic, window,
                   nWindows, rendered, deviceUsed, interrupted>>

\* text = transcribe_audio_bytes(audio_data, ...) or
\* transcribe_audio_bytes_mlx(audio_data, ...) inside the inner try, whose
\* except Exception keeps any error for the rendering
Transcribe ==
    /\ phase = "Transcribing"
    /\ submitted' = Append(submitted, window)
    /\ \E r \in TranscribeOutcomes : result' = r
    /\ phase' = "Rendering"
    /\ UNCHANGED <<notChunked, backend, groqKey, rec, pyaLive, mic, window,
                   nWindows, rendered, deviceUsed, interrupted, raised>>

\* a renderer that reports an empty result as an error
RenderKindEmptyIsError(r) ==
    IF r.err \/ Strip(r.text) = <<>> THEN "error" ELSE "text"

\* which of the three prints of the iteration runs
RenderKind(r) ==
    IF r.err THEN "error"
    ELSE IF Strip(r.text) # <<>> THEN "text" ELSE "silence"

\* a loop that transcribes the same window again after an error
RenderRetrying ==
    /\ phase = "Rendering"
    /\ rendered' = Append(rendered, [win |-> window, kind |-> RenderKind(result)])
    /\ IF result.err
       THEN window' = window /\ phase' = "Transcribing"
       ELSE window' = 0 /\ phase' = "Recording"
    /\ UNCHANGED <<notChunked, backend, groqKey, rec, pyaLive, mic, nWindows,
                   result, submitted, deviceUsed, interrupted, raised>>

\* a cycle that prints its result twice
RenderTwice ==
    /\ phase = "Rendering"
    /\ rendered' = rendered \o << [win |-> window, kind |-> RenderKind(result)],
                                 [win |-> window, kind |-> RenderKind(result)] >>
    /\ window' = 0
    /\ phase' = "Recording"
    /\ UNCHANGED <<notChunked, backend, groqKey, rec, pyaLive, mic, nWindows,
                   result, submitted, deviceUsed, interrupted, raised>>

\* the print of the transcript, of "(silence)" or of the error, and the
\* next turn of while True
Render ==
    /\ phase = "Rendering"
    /\ rendered' = Append(rendered, [win |-> window, kind |-> RenderKind(result)])
    /\ window' = 0
    /\ phase' = "Recording"
    /\ UNCHANGED <<notChunked, backend, groqKey, rec, pyaLive, mic, nWindows,
                   result, submitted, deviceUsed, interrupted, raised>>

\* KeyboardInterrupt.  Inside the loop it passes except Exception, runs the
\* finally of an interrupted record_chunk and reaches the outer handler,
\* which prints "Transcription stopped."; during the setup it leaves the
\* function, with the instance alive if it had been created.
KeyboardInterrupt ==
    /\ interrupted' = TRUE
    /\ \/ /\ phase \in {"Recording", "Transcribing", "Rendering"}
          /\ phase' = "Stopped"
          /\ rec' = "idle"
          /\ pyaLive' = IF rec = "idle" THEN pyaLive ELSE pyaLive - 1
          /\ mic' = IF mic = "open" THEN "closed" ELSE mic
          /\ raised' = raised
       \/ /\ phase = "Setup"
          /\ phase' = "Raised"
          /\ raised' = [err |-> "KeyboardInterrupt", from |-> "setup"]
          /\ pyaLive' \in {pyaLive, pyaLive + 1}
          /\ UNCHANGED <<rec, mic>>
    /\ UNCHANGED <<notChunked, backend, groqKey, window, nWindows, result,
                   submitted, rendered, deviceUsed>>

NextChunked ==
    \/ Setup
    \/ RecordStart
    \/ RecordLookup
    \/ RecordOpen
    \/ RecordRead
    \/ Transcribe
    \/ Render
    \/ KeyboardInterrupt

\* run_live_transcription(backend) with backend "mlx" or "groq"
StartChunked == InitChunked /\ IdleStream /\ IdleMlx /\ IdleMime /\ IdleShell /\ IdleFiles /\ IdleOptions

SpecChunked == StartChunked /\ [][NextChunked]_vars

\* ------------------------------------------------------------------------
\* Properties of the chunked live loop
\* ------------------------------------------------------------------------

Ended == phase \in {"Stopped", "Raised"}

\* C3 as stated: once the loop runs, the session ends only through an
\* operator interrupt.
C3_EndsOnlyByInterrupt ==
    (Ended /\ raised.from # "setup") => (phase = "Stopped" /\ interrupted)

\* C3 amended: Stopped is reached only through an operator interrupt; an
\* error of the transcription call never leaves the loop (the iteration
\* goes on to render it and the loop to the next Recording); an error
\* raised by record_chunk is not caught and leaves the session function.
C3_TranscribeErrorsCaughtCaptureErrorsRaised ==
    /\ [](phase = "Stopped" => interrupted)
    /\ [](phase = "Raised" => raised.from \in {"setup", "record_chunk"})
    /\ [][phase = "Transcribing" => phase' \in {"Rendering", "Stopped"}]_vars
    /\ [][(phase = "Rendering" /\ result.err)
            => \/ phase' = "Stopped"
               \/ /\ phase' = "Recording"
                  /\ rendered'[Len(rendered')].kind = "error"]_vars
    /\ [][(phase = "Recording" /\ phase' = "Raised")
            => /\ ~interrupted'
               /\ raised'.from = "record_chunk"]_vars

\* C3 witness: a transcription error was rendered, the loop went on, and a
\* later capture error ended the session without an interrupt
C3_Witness ==
    /\ phase = "Raised"
    /\ raised.from = "record_chunk"
    /\ ~interrupted
    /\ Len(rendered) >= 1
    /\ rendered[1].kind = "error"

\* C4: a window whose transcription call failed is rendered as an error in
\* that cycle and dropped; the loop goes to Recording (or is interrupted);
\* no window is ever submitted twice.
C4_FailedWindowRenderedAndSkipped ==
    /\ [](\A i, j \in 1..Len(submitted) :
            i # j => submitted[i] # submitted[j])
    /\ [](phase = "Transcribing" => window = nWindows /\ window # 0)
    /\ [][(phase = "Rendering" /\ result.err)
            => \/ phase' = "Stopped"
               \/ /\ phase' = "Recording"
                  /\ rendered' = Append(rendered,
                                        [win |-> window, kind |-> "error"])
                  /\ window' = 0
                  /\ submitted' = submitted]_vars

\* C4 witness: without a Groq key the first window failed, was rendered as
\* an error, and a second window has been captured and submitted
C4_Witness ==
    /\ backend = "groq"
    /\ ~groqKey
    /\ Len(rendered) >= 1
    /\ rendered[1] = [win |-> 1, kind |-> "error"]
    /\ submitted = <<1, 2>>

\* ------------------------------------------------------------------------
\* run_live_transcription: the backend selects one of the two pipelines
\* ------------------------------------------------------------------------
StartLive == StartStream \/ StartChunked

NextLive == NextStream \/ NextChunked

SpecLive == StartLive /\ [][NextLive]_vars

Unconfigured ==
    \/ backend = "groq" /\ ~groqKey
    \/ backend = "gemini" /\ ~geminiKey

\* C2 as stated: with a cloud backend selected and its credential missing,
\* no input device is ever queried or opened, no window is transcribed, and
\* the session ends only by raising a configuration error to its caller.
C2_UnconfiguredRaisesBeforeDevice ==
    Unconfigured
        => /\ ~deviceUsed
           /\ mic = "none"
           /\ stream = "none"
           /\ listen # "opening"
           /\ submitted = <<>>
           /\ (Ended => raised.err = "ConfigurationError")
           /\ main \notin {"stopped", "finally"}

\* C2 amended: with the gemini backend and no GEMINI_API_KEY the session
\* raises ConfigurationError to its caller before any task starts and before
\* any input device is queried or opened.  With the groq backend and no
\* GROQ_API_KEY nothing is raised for the missing key: it is found by the
\* first transcription call, after the device has been queried and a window
\* recorded, and every window is rendered as an error.
C2_GeminiRaisesGroqReportsPerWindow ==
    /\ (backend = "gemini" /\ ~geminiKey)
          => /\ main \in {"start", "client", "raised"}
             /\ (main = "raised" => outcome = "ConfigurationError")
             /\ stream = "none"
             /\ thread = "none"
             /\ {listen, send, recv} = {"notstarted"}
             /\ ~deviceUsed
    /\ (backend = "groq" /\ ~groqKey)
          => /\ raised.from # "transcribe"
             /\ (submitted # <<>> => deviceUsed /\ mic # "none")
             /\ (phase = "Rendering" => result.err)
             /\ \A i \in 1..Len(rendered) : rendered[i].kind = "error"

\* C2 witness: the gemini session has raised ConfigurationError with the
\* audio subsystem initialised and no device touched
C2_Witness ==
    /\ backend = "gemini"
    /\ ~geminiKey
    /\ main = "raised"
    /\ outcome = "ConfigurationError"
    /\ pya = "init"
    /\ stream = "none"

\* ------------------------------------------------------------------------
\* transcribe_audio_bytes_mlx
\* ------------------------------------------------------------------------
UpperCase ==
    <<"A", "B", "C", "D", "E", "F", "G", "H", "I", "J", "K", "L", "M", "N", "O", "P", "Q", "R", "S", "T", "U", "V", "W", "X", "Y", "Z">>

LowerCase ==
    <<"a", "b", "c", "d", "e", "f", "g", "h", "i", "j", "k", "l", "m", "n", "o", "p", "q", "r", "s", "t", "u", "v", "w", "x", "y", "z">>

\* the lower-case form of one character
LowerChar(c) ==
    IF \E i \in 1..Len(UpperCase) : UpperCase[i] = c
    THEN LowerCase[CHOOSE i \in 1..Len(UpperCase) : UpperCase[i] = c]
    ELSE c

\* str.lower()
Lower(s) == [i \in 1..Len(s) |-> LowerChar(s[i])]

\* hallucination_phrases
HallucinationPhrases ==
    { <<"t", "h", "a", "n", "k", " ", "y", "o", "u">>,
      <<"t", "h", "a", "n", "k", "s">>,
      <<"t", "h", "a", "n", "k", " ", "y", "o", "u", " ", "f", "o", "r", " ", "w", "a", "t", "c", "h", "i", "n", "g">>,
      <<"t", "h", "a", "n", "k", " ", "y", "o", "u", " ", "f", "o", "r", " ", "l", "i", "s", "t", "e", "n", "i", "n", "g">>,
      <<"b", "y", "e">>,
      <<"g", "o", "o", "d", "b", "y", "e">>,
      <<"a", "l", "r", "i", "g", "h", "t">>,
      <<"a", "l", "l", " ", "r", "i", "g", "h", "t">>,
      <<"o", "k", "a", "y">>,
      <<"o", "k">>,
      <<"y", "o", "u">>,
      <<"y", "e", "a", "h">>,
      <<"y", "e", "s">>,
      <<"n", "o">>,
      <<"p", "l", "e", "a", "s", "e", " ", "s", "u", "b", "s", "c", "r", "i", "b", "e">>,
      <<"l", "i", "k", "e", " ", "a", "n", "d", " ", "s", "u", "b", "s", "c", "r", "i", "b", "e">> }

\* characters of the texts the model is given to return
TextAlphabet == {"o", "k", "O", "n", " "}

\* all sequences over S of length at most n
SeqsUpTo(S, n) == UNION {[1..k -> S] : k \in 0..n}

\* results of mlx_whisper.transcribe: a dict with or without the key "text"
ModelOutputs ==
    {[has_text |-> FALSE, text |-> <<>>]}
    \cup {[has_text |-> TRUE, text |-> t] : t \in SeqsUpTo(TextAlphabet, MaxTextLen)}

\* result.get("text", "")
GetText(r) == IF r.has_text THEN r.text ELSE <<>>

\* a filter that compares without folding the case
HallucinationFilterCaseSensitive(text) ==
    IF text \in HallucinationPhrases THEN <<>> ELSE text

\* if text.lower() in hallucination_phrases: return ""; return text
HallucinationFilter(text) ==
    IF Lower(text) \in HallucinationPhrases THEN <<>> ELSE text

InitMlx ==
    /\ mlx_pc = "start"
    /\ temp_file = "none"
    /\ model_output \in ModelOutputs
    /\ mlx_return = <<>>
    /\ mlx_end = "none"

\* import mlx_whisper
MlxImport ==
    /\ mlx_pc = "start"
    /\ \/ mlx_pc' = "create" /\ mlx_end' = mlx_end
       \/ mlx_pc' = "done" /\ mlx_end' = "ImportError"
    /\ UNCHANGED <<notMlx, temp_file, model_output, mlx_return>>

\* with tempfile.NamedTemporaryFile(suffix=".wav", delete=False) as f
MlxCreateTemp ==
    /\ mlx_pc = "create"
    /\ \/ mlx_pc' = "write" /\ temp_file' = "exists" /\ mlx_end' = mlx_end
       \/ mlx_pc' = "done" /\ temp_file' = temp_file /\ mlx_end' = "OSError"
    /\ UNCHANGED <<notMlx, model_output, mlx_return>>

\* f.write(audio_data); temp_path = f.name: before the try, so an error of
\* the write closes the file (delete=False keeps it) and leaves the function
MlxWrite ==
    /\ mlx_pc = "write"
    /\ \/ mlx_pc' = "infer" /\ mlx_end' = mlx_end
       \/ mlx_pc' = "done" /\ mlx_end' = "OSError"
    /\ UNCHANGED <<notMlx, temp_file, model_output, mlx_return>>

\* result = mlx_whisper.transcribe(temp_path, ...) inside the try; an error
\* runs the finally: os.unlink(temp_path)
MlxInfer ==
    /\ mlx_pc = "infer"
    /\ \/ mlx_pc' = "filter" /\ temp_file' = temp_file /\ mlx_end' = mlx_end
       \/ mlx_pc' = "done" /\ temp_file' = "deleted" /\ mlx_end' = "Exception"
    /\ UNCHANGED <<notMlx, model_output, mlx_return>>

\* text = result.get("text", "").strip(), the filter, the return and the
\* finally: os.unlink(temp_path)
MlxFilterReturn ==
    /\ mlx_pc = "filter"
    /\ mlx_return' = HallucinationFilter(Strip(GetText(model_output)))
    /\ temp_file' = "deleted"
    /\ mlx_pc' = "done"
    /\ mlx_end' = "returned"
    /\ UNCHANGED <<notMlx, model_output>>

\* KeyboardInterrupt while the function runs: the finally deletes the file
\* only when the try had been entered
MlxInterrupt ==
    /\ mlx_pc \in {"write", "infer", "filter"}
    /\ temp_file' = IF mlx_pc = "write" THEN temp_file ELSE "deleted"
    /\ mlx_pc' = "done"
    /\ mlx_end' = "KeyboardInterrupt"
    /\ UNCHANGED <<notMlx, model_output, mlx_return>>

NextMlx ==
    \/ MlxImport
    \/ MlxCreateTemp
    \/ MlxWrite
    \/ MlxInfer
    \/ MlxFilterReturn
    \/ MlxInterrupt

\* one call of transcribe_audio_bytes_mlx
StartMlx == InitMlx /\ IdleStream /\ IdleChunked /\ IdleMime /\ IdleShell /\ IdleFiles /\ IdleOptions

SpecMlx == StartMlx /\ [][NextMlx]_vars

\* ------------------------------------------------------------------------
\* Properties of transcribe_audio_bytes_mlx
\* ------------------------------------------------------------------------

\* C7: when a call that created the temporary file has ended, by a return or
\* by any failure, the file no longer exists.
C7_TempFileGoneWhenCallEnds ==
    mlx_pc = "done" => temp_file # "exists"

\* t is s without its leading and trailing whitespace: s is some whitespace,
\* then t, then some whitespace, and t neither starts nor ends with one
IsTrimOf(t, s) ==
    \E i \in 0..Len(s) : \E j \in i..Len(s) :
        /\ t = SubSeq(s, i + 1, j)
        /\ \A k \in 1..i : s[k] \in Whitespace
        /\ \A k \in (j + 1)..Len(s) : s[k] \in Whitespace
        /\ (t # <<>> => t[1] \notin Whitespace /\ t[Len(t)] \notin Whitespace)

\* s and p are the same text up to letter case
SameIgnoringCase(s, p) ==
    /\ Len(s) = Len(p)
    /\ \A k \in 1..Len(s) : LowerChar(s[k]) = LowerChar(p[k])

\* C8: the call returns "" when the model output, trimmed, is one of the
\* filler phrases whatever its letter case, and returns the trimmed output
\* unchanged otherwise.
C8_FillerPhrasesFiltered ==
    mlx_end = "returned" =>
        \E t \in SeqsUpTo(TextAlphabet, Len(GetText(model_output))) :
            /\ IsTrimOf(t, GetText(model_output))
            /\ mlx_return =
                 IF \E p \in HallucinationPhrases : SameIgnoringCase(t, p)
                 THEN <<>>
                 ELSE t

\* C8 witness: " Ok" is returned as "", being "ok" up to case and trimming
C8_Witness ==
    /\ mlx_end = "returned"
    /\ model_output = [has_text |-> TRUE, text |-> <<" ", "O", "k">>]
    /\ mlx_return = <<>>

\* ------------------------------------------------------------------------
\* get_audio_mime_type
\* ------------------------------------------------------------------------

\* AUDIO_MIME_TYPES, in the order of the dict: extension, MIME type
AUDIO_MIME_TYPES ==
    << <<<<".", "m", "p", "3">>, [top |-> "audio", sub |-> "mp3"]>>,
       <<<<".", "w", "a", "v">>, [top |-> "audio", sub |-> "wav"]>>,
       <<<<".", "a", "i", "f", "f">>, [top |-> "audio", sub |-> "aiff"]>>,
       <<<<".", "a", "i", "f">>, [top |-> "audio", sub |-> "aiff"]>>,
       <<<<".", "a", "a", "c">>, [top |-> "audio", sub |-> "aac"]>>,
       <<<<".", "o", "g", "g">>, [top |-> "audio", sub |-> "ogg"]>>,
       <<<<".", "f", "l", "a", "c">>, [top |-> "audio", sub |-> "flac"]>>,
       <<<<".", "m", "4", "a">>, [top |-> "audio", sub |-> "m4a"]>>,
       <<<<".", "o", "p", "u", "s">>, [top |-> "audio", sub |-> "opus"]>>,
       <<<<".", "w", "e", "b", "a">>, [top |-> "audio", sub |-> "webm"]>>,
       <<<<".", "w", "e", "b", "m">>, [top |-> "audio", sub |-> "webm"]>> >>

\* AUDIO_MIME_TYPES.keys()
AudioMimeKeys == [n \in 1..Len(AUDIO_MIME_TYPES) |-> AUDIO_MIME_TYPES[n][1]]

\* no MIME type (None)
NoType == [top |-> "", sub |-> ""]

\* the table of mimetypes.guess_type, for the extensions the paths can spell
TypesMap(e) ==
    CASE e = <<".", "a", "u">> -> [top |-> "audio", sub |-> "basic"]
      [] e = <<".", "w", "a", "v">> -> [top |-> "audio", sub |-> "x-wav"]
      [] e = <<".", "a">> -> [top |-> "application", sub |-> "octet-stream"]
      [] OTHER -> NoType

\* characters of the file names
PathAlphabet == {"a", "u", "w", "v", "W", "."}

\* the file names given to get_audio_mime_type (no directory part)
Paths == SeqsUpTo(PathAlphabet, MaxPathLen)

\* str.rfind(c) + 1: the position of the last c in p, 0 when there is none
RFind(p, c) ==
    IF \E i \in 1..Len(p) : p[i] = c
    THEN CHOOSE i \in 1..Len(p) : p[i] = c /\ \A k \in (i + 1)..Len(p) : p[k] # c
    ELSE 0

\* Path(file_path).suffix
Suffix(p) ==
    LET i == RFind(p, ".")
    IN  IF 1 < i /\ i < Len(p) THEN SubSeq(p, i, Len(p)) ELSE <<>>

\* posixpath.splitext(p)[1]: leading dots are not an extension
SplitExt(p) ==
    LET i == RFind(p, ".")
    IN  IF i > 0 /\ \E k \in 1..(i - 1) : p[k] # "."
        THEN SubSeq(p, i, Len(p))
        ELSE <<>>

\* mimetypes.guess_type(file_path)[0]
GuessType(p) == TypesMap(Lower(SplitExt(p)))

\* the extension compared as the file spells it
ExtCaseSensitive(p) == Suffix(p)

\* ext = Path(file_path).suffix.lower()
Ext(p) == Lower(Suffix(p))

\* AUDIO_MIME_TYPES[ext]
MappedType(e) ==
    AUDIO_MIME_TYPES[CHOOSE n \in 1..Len(AUDIO_MIME_TYPES) : AUDIO_MIME_TYPES[n][1] = e][2]

InitMime ==
    /\ file_path \in Paths
    /\ mime_type = NoType
    /\ mime_end = "called"
    /\ mime_msg = <<>>

\* get_audio_mime_type(file_path)
GetAudioMimeType ==
    /\ mime_end = "called"
    /\ LET ext == Ext(file_path)
           guess == GuessType(file_path)
       IN  IF \E n \in 1..Len(AUDIO_MIME_TYPES) : AUDIO_MIME_TYPES[n][1] = ext
           THEN /\ mime_type' = MappedType(ext)
                /\ mime_end' = "returned"
                /\ mime_msg' = mime_msg
           ELSE IF guess # NoType /\ guess.top = "audio"
           THEN /\ mime_type' = guess
                /\ mime_end' = "returned"
                /\ mime_msg' = mime_msg
           ELSE /\ mime_type' = mime_type
                /\ mime_end' = "ValueError"
                /\ mime_msg' = AudioMimeKeys
    /\ UNCHANGED <<notMime, file_path>>

NextMime == GetAudioMimeType

\* one call of get_audio_mime_type
StartMime == InitMime /\ IdleStream /\ IdleChunked /\ IdleMlx /\ IdleShell /\ IdleFiles /\ IdleOptions

SpecMime == StartMime /\ [][NextMime]_vars

\* ------------------------------------------------------------------------
\* Properties of get_audio_mime_type
\* ------------------------------------------------------------------------

\* e is the extension of the file name p: the part from the last "." on,
\* that "." being neither the first nor the last character of the name
IsExtensionOf(e, p) ==
    \E i \in 2..(Len(p) - 1) :
        /\ p[i] = "."
        /\ \A k \in (i + 1)..Len(p) : p[k] # "."
        /\ e = SubSeq(p, i, Len(p))

\* the extension of p is, up to case, the n-th key of the allow-list
AllowListed(p, n) ==
    \E i \in 1..Len(p) :
        /\ IsExtensionOf(SubSeq(p, i, Len(p)), p)
        /\ SameIgnoringCase(SubSeq(p, i, Len(p)), AUDIO_MIME_TYPES[n][1])

\* C10 as stated: an allow-listed extension gives its mapped type, and every
\* other path fails with the error naming the supported extensions.
C10_NotAllowListedFails ==
    mime_end # "called" =>
        /\ \A n \in 1..Len(AUDIO_MIME_TYPES) :
              AllowListed(file_path, n) =>
                  mime_end = "returned" /\ mime_type = AUDIO_MIME_TYPES[n][2]
        /\ (\A n \in 1..Len(AUDIO_MIME_TYPES) : ~AllowListed(file_path, n)) =>
              mime_end = "ValueError" /\ mime_msg = AudioMimeKeys

\* C10 amended: an allow-listed extension gives its mapped type; any other
\* path gives the audio type the system guesser knows for it, and fails with
\* the error naming the supported extensions only when the guesser knows no
\* audio type.
C10_AllowListThenGuesserThenFails ==
    mime_end # "called" =>
        /\ \A n \in 1..Len(AUDIO_MIME_TYPES) :
              AllowListed(file_path, n) =>
                  mime_end = "returned" /\ mime_type = AUDIO_MIME_TYPES[n][2]
        /\ (\A n \in 1..Len(AUDIO_MIME_TYPES) : ~AllowListed(file_path, n)) =>
              IF GuessType(file_path).top = "audio"
              THEN mime_end = "returned" /\ mime_type = GuessType(file_path)
              ELSE mime_end = "ValueError" /\ mime_msg = AudioMimeKeys

\* C10 witness: "a.au" is not allow-listed and is returned as audio/basic
C10_Witness ==
    /\ file_path = <<"a", ".", "a", "u">>
    /\ mime_end = "returned"
    /\ mime_type = [top |-> "audio", sub |-> "basic"]

\* ------------------------------------------------------------------------
\* The command shell: run_command_line, run_interactive and the handlers
\* ------------------------------------------------------------------------

\* characters of the argument tokens
TokenAlphabet == {"1", "x", "."}

\* the tokens of a command line: non-empty, without whitespace
Tokens == SeqsUpTo(TokenAlphabet, MaxTokenLen) \ {<<>>}

\* parts[1:] / sys.argv[2:]
ArgLists == SeqsUpTo(Tokens, MaxArgs)

\* parts[0].lower() / sys.argv[1].lower(), with "other" for any other word
InteractiveCommands ==
    {"quit", "help", "analyze", "transcribe", "live", "live_file", "record",
     "devices", "other"}

\* float(t) succeeds: digits with at most one ".", and at least one digit
IsFloatLiteral(t) ==
    /\ \A k \in 1..Len(t) : t[k] \in {"1", "."}
    /\ \E k \in 1..Len(t) : t[k] = "1"
    /\ \A j, k \in 1..Len(t) : (t[j] = "." /\ t[k] = ".") => j = k

\* what a call made by a handler can do
CallOutcomes == {"ok", "FileNotFoundError", "Exception", "KeyboardInterrupt"}

InitShell ==
    /\ mode = "none"
    /\ shell_pc = "start"
    /\ command = ""
    /\ args = <<>>
    /\ printed = "nothing"
    /\ crash = "none"

\* run_command_line: without arguments the interactive loop, else one command
RunCommandLine ==
    /\ shell_pc = "start"
    /\ \/ /\ mode' = "interactive"
          /\ shell_pc' = "prompt"
          /\ printed' = "menu"
          /\ UNCHANGED <<command, args>>
       \/ /\ mode' = "oneshot"
          /\ shell_pc' = "dispatch"
          /\ command' \in InteractiveCommands
          /\ args' \in ArgLists
          /\ printed' = printed
    /\ UNCHANGED <<notShell, crash>>

\* input("kopichat> ").strip(), the split, and the quit branch
ReadLine ==
    /\ mode = "interactive"
    /\ shell_pc = "prompt"
    /\ \/ \* EOFError or KeyboardInterrupt at the prompt: "\nGoodbye!"
          /\ shell_pc' = "exited"
          /\ printed' = "goodbye on a new line"
          /\ UNCHANGED <<command, args>>
       \/ \* an empty line: continue
          /\ UNCHANGED <<shell_pc, command, args, printed>>
       \/ /\ command' \in InteractiveCommands
          /\ args' \in ArgLists
          /\ IF command' = "quit"
             THEN shell_pc' = "exited" /\ printed' = "goodbye"
             ELSE shell_pc' = "dispatch" /\ printed' = printed
    /\ UNCHANGED <<notShell, mode, crash>>

\* control after a handler: it returned having printed p, or raised exc,
\* which only the interactive loop catches, and only as KeyboardInterrupt
AfterHandler(exc, p) ==
    /\ IF exc = "none"
       THEN /\ shell_pc' = IF mode = "interactive" THEN "prompt" ELSE "exited"
            /\ printed' = p
            /\ crash' = crash
       ELSE IF exc = "KeyboardInterrupt" /\ mode = "interactive"
       THEN /\ shell_pc' = "exited"
            /\ printed' = "goodbye on a new line"
            /\ crash' = crash
       ELSE /\ shell_pc' = "crashed"
            /\ printed' = "traceback"
            /\ crash' = exc
    /\ UNCHANGED <<notShell, mode, command, args>>

\* what a handler with try / except Exception makes of a call's outcome
CaughtException(o) == IF o = "KeyboardInterrupt" THEN o ELSE "none"

\* what such a handler prints
PrintedFor(o) ==
    CASE o = "ok" -> "result"
      [] o = "FileNotFoundError" -> "file not found"
      [] OTHER -> "error"

\* help / --help / -h: print_menu
Help ==
    /\ shell_pc = "dispatch"
    /\ command = "help"
    /\ AfterHandler("none", "menu")

\* the else branch: Unknown command (quit is one in one-shot mode)
UnknownCommand ==
    /\ shell_pc = "dispatch"
    /\ command \in {"other", "quit"}
    /\ AfterHandler("none", "unknown command")

handle_analyze ==
    /\ shell_pc = "dispatch"
    /\ command = "analyze"
    /\ IF args = <<>>
       THEN AfterHandler("none", "usage")
       ELSE \E o \in CallOutcomes : AfterHandler(CaughtException(o), PrintedFor(o))

handle_transcribe ==
    /\ shell_pc = "dispatch"
    /\ command = "transcribe"
    /\ IF args = <<>>
       THEN AfterHandler("none", "usage")
       ELSE \E o \in CallOutcomes : AfterHandler(CaughtException(o), PrintedFor(o))

LiveBackends == {"mlx", "groq", "gemini"}

\* where the operator interrupt finds the session: in its set-up (the
\* device query, the loading of the model, the creation of the client) or
\* while it is transcribing
InterruptPoints == {"setup", "running"}

\* how run_live_transcription ends on an operator interrupt: the chunked
\* loops catch it inside their try and print "Transcription stopped.", but
\* their set-up is outside of it; run_gemini_transcription catches what
\* asyncio.run raises, the finally of the coroutine having printed
\* "Transcription stopped." once the try had been entered
InterruptedSession(b, at) ==
    IF b = "gemini"
    THEN [exc |-> "none", printed |-> IF at = "running" THEN "stopped" ELSE "nothing"]
    ELSE IF at = "running"
    THEN [exc |-> "none", printed |-> "stopped"]
    ELSE [exc |-> "KeyboardInterrupt", printed |-> "nothing"]

\* a handle_live that lets the interrupt of the session pass
handle_live_propagating ==
    /\ shell_pc = "dispatch"
    /\ command = "live"
    /\ \/ \E b \in LiveBackends, at \in InterruptPoints :
             AfterHandler(InterruptedSession(b, at).exc,
                          InterruptedSession(b, at).printed)
       \/ AfterHandler("none", "error")

\* handle_live: a session ends by an operator interrupt or by an error;
\* the handler catches KeyboardInterrupt ("Transcription ended.") and
\* Exception ("Error: ...")
handle_live ==
    /\ shell_pc = "dispatch"
    /\ command = "live"
    /\ \/ \E b \in LiveBackends, at \in InterruptPoints :
             AfterHandler("none",
                          IF InterruptedSession(b, at).exc = "KeyboardInterrupt"
                          THEN "ended"
                          ELSE InterruptedSession(b, at).printed)
       \/ AfterHandler("none", "error")

handle_live_file ==
    /\ shell_pc = "dispatch"
    /\ command = "live_file"
    /\ IF args = <<>>
       THEN AfterHandler("none", "usage")
       ELSE \E o \in CallOutcomes : AfterHandler(CaughtException(o), PrintedFor(o))

\* handle_record: float(args[1]) is evaluated before the try
handle_record ==
    /\ shell_pc = "dispatch"
    /\ command = "record"
    /\ IF args = <<>>
       THEN AfterHandler("none", "usage")
       ELSE IF Len(args) > 1 /\ ~IsFloatLiteral(args[2])
       THEN AfterHandler("ValueError", "nothing")
       ELSE \E o \in CallOutcomes \ {"FileNotFoundError"} :
               AfterHandler(CaughtException(o), PrintedFor(o))

\* handle_devices: list_audio_devices() without a try
handle_devices ==
    /\ shell_pc = "dispatch"
    /\ command = "devices"
    /\ \E o \in CallOutcomes \ {"FileNotFoundError"} :
          AfterHandler(IF o = "ok" THEN "none" ELSE o, "devices")

NextShell ==
    \/ RunCommandLine
    \/ ReadLine
    \/ Help
    \/ UnknownCommand
    \/ handle_analyze
    \/ handle_transcribe
    \/ handle_live
    \/ handle_live_file
    \/ handle_record
    \/ handle_devices

\* one run of main.py
StartShell == InitShell /\ IdleStream /\ IdleChunked /\ IdleMlx /\ IdleMime /\ IdleFiles /\ IdleOptions

SpecShell == StartShell /\ [][NextShell]_vars

\* ------------------------------------------------------------------------
\* Properties of the command shell
\* ------------------------------------------------------------------------

\* C9: in both modes, whatever the command and its arguments, an error is
\* caught and printed at the command boundary: only an operator interrupt
\* ends the process by an exception, and the interactive loop ends only on
\* quit, operator interrupt or end-of-input.
C9_NoUncaughtException ==
    /\ shell_pc = "crashed" => crash = "KeyboardInterrupt" /\ mode = "oneshot"
    /\ (mode = "interactive" /\ shell_pc = "exited")
          => printed \in {"goodbye", "goodbye on a new line"}

\* ------------------------------------------------------------------------
\* record_chunk and record_audio: the capture of one recording
\* ------------------------------------------------------------------------

\* CHUNK_SIZE / DEFAULT_CHUNK_SIZE
CHUNK_SIZE == 1024

\* durations are counted in tenths of a second
DurationUnit == 10

\* the sample rates tried: SAMPLE_RATE and two others
Rates == {8000, 16000, 44100}

\* the durations tried, in tenths of a second; float() accepts a sign
Durations == (0 - MaxDuration)..MaxDuration

\* int(x) for x = n / d with d > 0: truncation toward zero
Trunc(n, d) == IF n >= 0 THEN n \div d ELSE 0 - ((0 - n) \div d)

\* a chunk count rounded up instead of truncated
TotalChunksRoundedUp(R, D) ==
    Trunc(R * D + CHUNK_SIZE * DurationUnit - 1, CHUNK_SIZE * DurationUnit)

\* total_chunks = int(sample_rate / CHUNK_SIZE * duration_seconds)
TotalChunks(R, D) == Trunc(R * D, CHUNK_SIZE * DurationUnit)

InitCapture ==
    /\ cap_fn \in {"record_chunk", "record_audio"}
    /\ cap_pc = "start"
    /\ sample_rate \in Rates
    /\ duration_seconds \in Durations
    /\ total_chunks = 0
    /\ frames = 0
    /\ wav_samples = 0

\* pyaudio.PyAudio(), get_default_input_device_info, pya.open, total_chunks
CaptureOpen ==
    /\ cap_pc = "start"
    /\ total_chunks' = TotalChunks(sample_rate, duration_seconds)
    /\ cap_pc' = "reading"
    /\ UNCHANGED <<notCapture, cap_fn, sample_rate, duration_seconds, frames,
                   wav_samples>>

\* one pass of the for loop: stream.read(CHUNK_SIZE); frames.append(data)
CaptureRead ==
    /\ cap_pc = "reading"
    /\ frames < total_chunks
    /\ frames' = frames + 1
    /\ UNCHANGED <<notCapture, cap_fn, cap_pc, sample_rate, duration_seconds,
                   total_chunks, wav_samples>>

\* the range is exhausted: stop_stream, close, terminate, and the WAV
\* written with writeframes(b"".join(frames))
CaptureSave ==
    /\ cap_pc = "reading"
    /\ frames >= total_chunks
    /\ wav_samples' = CHUNK_SIZE * frames
    /\ cap_pc' = "done"
    /\ UNCHANGED <<notCapture, cap_fn, sample_rate, duration_seconds,
                   total_chunks, frames>>

\* no input device, or an error of open or read: the finally terminates
\* PyAudio and the exception leaves the function, no WAV being written
CaptureFail ==
    /\ cap_pc \in {"start", "reading"}
    /\ cap_pc' = "raised"
    /\ UNCHANGED <<notCapture, cap_fn, sample_rate, duration_seconds,
                   total_chunks, frames, wav_samples>>

NextCapture ==
    \/ CaptureOpen
    \/ CaptureRead
    \/ CaptureSave
    \/ CaptureFail

\* one call of record_chunk or record_audio
StartCapture ==
    InitCapture /\ IdleStream /\ IdleChunked /\ IdleMlx /\ IdleMime
    /\ IdleShell /\ IdleAnalyze /\ IdleUpload /\ IdleOptions

SpecCapture == StartCapture /\ [][NextCapture]_vars

\* ------------------------------------------------------------------------
\* Properties of the capture
\* ------------------------------------------------------------------------

\* C11 as stated: for every rate R and duration D the recording is whole
\* chunks of 1024 samples and its sample count S has R*D - 1024 < S <= R*D.
C11_WithinOneChunkForEveryDuration ==
    cap_pc = "done" =>
        /\ wav_samples % CHUNK_SIZE = 0
        /\ sample_rate * duration_seconds - CHUNK_SIZE * DurationUnit
             < wav_samples * DurationUnit
        /\ wav_samples * DurationUnit <= sample_rate * duration_seconds

\* C11 amended: the recording is whole chunks of 1024 samples; for a
\* duration D >= 0 its sample count S has R*D - 1024 < S <= R*D, and for a
\* negative duration nothing is captured (S = 0).
C11_WithinOneChunkForNonNegativeDuration ==
    cap_pc = "done" =>
        /\ wav_samples % CHUNK_SIZE = 0
        /\ IF duration_seconds >= 0
           THEN /\ sample_rate * duration_seconds - CHUNK_SIZE * DurationUnit
                     < wav_samples * DurationUnit
                /\ wav_samples * DurationUnit <= sample_rate * duration_seconds
           ELSE wav_samples = 0

\* C11 witness: record_audio at 16000 Hz for 5.0 s saves 78 chunks
C11_Witness ==
    /\ cap_fn = "record_audio"
    /\ cap_pc = "done"
    /\ sample_rate = 16000
    /\ duration_seconds = 5 * DurationUnit
    /\ wav_samples = 78 * CHUNK_SIZE

\* ------------------------------------------------------------------------
\* analyze_audio
\* ------------------------------------------------------------------------

\* INLINE_SIZE_THRESHOLD, in bytes
INLINE_SIZE_THRESHOLD == 20 * 1024 * 1024

\* the file sizes tried: empty, small, and around the threshold
FileSizes ==
    {0, 1, INLINE_SIZE_THRESHOLD - 1, INLINE_SIZE_THRESHOLD,
     INLINE_SIZE_THRESHOLD + 1, 2 * INLINE_SIZE_THRESHOLD}

\* a choice that sends a file of exactly the threshold size inline
UsesInlineInclusive(size) == size <= INLINE_SIZE_THRESHOLD

\* if file_size < INLINE_SIZE_THRESHOLD
UsesInline(size) == size < INLINE_SIZE_THRESHOLD

InitAnalyze ==
    /\ an_pc = "start"
    /\ an_exists \in BOOLEAN
    /\ file_size \in FileSizes
    /\ an_key \in BOOLEAN
    /\ client \in {"None", "given"}
    /\ methods = <<>>
    /\ contacted = FALSE
    /\ an_end = "none"

\* if not os.path.exists(file_path): raise FileNotFoundError; then getsize
\* and the two prints
AnalyzeValidate ==
    /\ an_pc = "start"
    /\ IF an_exists
       THEN an_pc' = "client" /\ an_end' = an_end
       ELSE an_pc' = "done" /\ an_end' = "FileNotFoundError"
    /\ UNCHANGED <<notAnalyze, an_exists, file_size, an_key, client, methods,
                   contacted>>

\* if client is None: client = get_client(), which raises ConfigurationError
\* without GEMINI_API_KEY
AnalyzeGetClient ==
    /\ an_pc = "client"
    /\ IF client # "None"
       THEN an_pc' = "choose" /\ client' = client /\ an_end' = an_end
       ELSE IF an_key
       THEN an_pc' = "choose" /\ client' = "created" /\ an_end' = an_end
       ELSE an_pc' = "done" /\ client' = client /\ an_end' = "ConfigurationError"
    /\ UNCHANGED <<notAnalyze, an_exists, file_size, an_key, methods, contacted>>

\* the choice of the method and the call of it
AnalyzeChoose ==
    /\ an_pc = "choose"
    /\ IF UsesInline(file_size)
       THEN an_pc' = "inline" /\ methods' = Append(methods, "inline")
       ELSE an_pc' = "upload" /\ methods' = Append(methods, "upload")
    /\ UNCHANGED <<notAnalyze, an_exists, file_size, an_key, client, contacted,
                   an_end>>

\* analyze_audio_inline: the MIME type or the read may fail before any
\* request; generate_content returns or raises
AnalyzeInline ==
    /\ an_pc = "inline"
    /\ \/ contacted' = contacted /\ an_end' \in {"ValueError", "OSError"}
       \/ contacted' = TRUE /\ an_end' \in {"returned", "Exception"}
    /\ an_pc' = "done"
    /\ UNCHANGED <<notAnalyze, an_exists, file_size, an_key, client, methods>>

\* analyze_audio_upload: client.files.upload, then the wait and the request
AnalyzeUpload ==
    /\ an_pc = "upload"
    /\ contacted' = TRUE
    /\ an_end' \in {"returned", "TimeoutError", "RuntimeError", "Exception"}
    /\ an_pc' = "done"
    /\ UNCHANGED <<notAnalyze, an_exists, file_size, an_key, client, methods>>

NextAnalyze ==
    \/ AnalyzeValidate
    \/ AnalyzeGetClient
    \/ AnalyzeChoose
    \/ AnalyzeInline
    \/ AnalyzeUpload

\* one call of analyze_audio
StartAnalyze ==
    InitAnalyze /\ IdleStream /\ IdleChunked /\ IdleMlx /\ IdleMime
    /\ IdleShell /\ IdleCapture /\ IdleUpload /\ IdleOptions

SpecAnalyze == StartAnalyze /\ [][NextAnalyze]_vars

\* ------------------------------------------------------------------------
\* Properties of analyze_audio
\* ------------------------------------------------------------------------

\* C12: for an existing file with a client at hand exactly one input method
\* is used: inline when the size is strictly below 20 MB, upload when it is
\* 20 MB or more; a missing file raises FileNotFoundError with no client
\* created and no backend contacted, even without a credential.
C12_MethodBySizeAndMissingFileFirst ==
    /\ Len(methods) <= 1
    /\ methods # <<>> =>
          /\ an_exists
          /\ methods[1] = IF file_size < 20 * 1024 * 1024 THEN "inline" ELSE "upload"
    /\ (an_pc = "done" /\ an_exists /\ (an_key \/ client # "None")) =>
          Len(methods) = 1
    /\ contacted => methods # <<>>
    /\ (an_pc # "start" /\ ~an_exists) =>
          /\ an_pc = "done"
          /\ an_end = "FileNotFoundError"
          /\ client # "created"
          /\ ~contacted
          /\ methods = <<>>

\* C12 witness: a file of exactly 20 MB has been analyzed by upload
C12_Witness ==
    /\ an_pc = "done"
    /\ an_end = "returned"
    /\ file_size = 20 * 1024 * 1024
    /\ methods = <<"upload">>

\* ------------------------------------------------------------------------
\* Properties of the chunked loop: what a cycle renders
\* ------------------------------------------------------------------------

\* the result in hand has been rendered: it is the last entry of rendered
ResultRendered == rendered # <<>> /\ Len(rendered) = Len(submitted)

\* C13: in both chunked backends an empty or whitespace-only result is
\* rendered as "(silence)" and never as an error; an error is rendered only
\* when the backend call raised; a non-empty result is rendered as text.
C13_SilenceIsNotAnError ==
    ResultRendered =>
        LET kind == rendered[Len(rendered)].kind
            blank == \A i \in 1..Len(result.text) : result.text[i] \in Whitespace
        IN  /\ kind \in {"text", "silence", "error"}
            /\ kind = "error" <=> result.err
            /\ kind = "silence" <=> (~result.err /\ blank)
            /\ kind = "text" <=> (~result.err /\ ~blank)

\* C13 witness: the groq backend returned " " and "(silence)" was rendered
C13_Witness ==
    /\ ResultRendered
    /\ backend = "groq"
    /\ result = [err |-> FALSE, text |-> <<" ">>]
    /\ rendered[Len(rendered)].kind = "silence"

\* ------------------------------------------------------------------------
\* Properties of the streaming renderer
\* ------------------------------------------------------------------------

\* C14: at every redraw the blank-fill spaces emitted number the characters
\* of the line then displayed; last_line_length is always the length of the
\* partial line shown since the last flush, and is 0 exactly when the
\* transcript buffer is empty; the line left by a redraw is the new text
\* alone, with nothing of the previous one remaining.
C14_BlankFillEqualsDisplayedLength ==
    /\ redraw.fill = redraw.shown
    /\ last_line_length = Len(status_line)
    /\ last_line_length = 0 <=> text_buffer = <<>>
    /\ text_buffer # <<>> => status_line = Marker \o Strip(Join(text_buffer))

\* C14 witness: "a" then " b" have been shown: the second redraw blanked the
\* 3 characters of "# a" and the line now shows the 5 of "# a b"
C14_Witness ==
    /\ text_buffer = <<<<"a">>, <<" ", "b">>>>
    /\ redraw = [fill |-> 3, shown |-> 3]
    /\ last_line_length = 5
    /\ status_line = <<"#", " ", "a", " ", "b">>

\* ------------------------------------------------------------------------
\* analyze_audio_upload
\* ------------------------------------------------------------------------

\* uploaded_file.state.name
FileStates == {"PROCESSING", "ACTIVE", "FAILED"}

\* seconds one pass of the loop takes: time.sleep(2), and the request
PassSeconds == {2, 3}

\* a wait that never gives up
TimedOutNever(e, m) == FALSE

\* if time.time() - start_time > max_wait_seconds
TimedOut(e, m) == e > m

InitUpload ==
    /\ up_pc = "start"
    /\ wait_for_processing \in BOOLEAN
    /\ max_wait_seconds \in 0..MaxWait
    /\ elapsed = 0
    /\ file_state = "none"
    /\ polls = 0
    /\ generated = <<>>
    /\ up_end = "none"

\* uploaded_file = client.files.upload(file=file_path); start_time
UploadFile ==
    /\ up_pc = "start"
    /\ \/ /\ file_state' \in FileStates
          /\ up_pc' = IF wait_for_processing THEN "wait" ELSE "generate"
          /\ up_end' = up_end
       \/ /\ file_state' = file_state
          /\ up_pc' = "done"
          /\ up_end' = "Exception"
    /\ UNCHANGED <<notUpload, wait_for_processing, max_wait_seconds, elapsed,
                   polls, generated>>

\* the head of the while loop with its timeout test, and after the loop
\* the test for FAILED
UploadCheck ==
    /\ up_pc = "wait"
    /\ IF file_state = "PROCESSING"
       THEN IF TimedOut(elapsed, max_wait_seconds)
            THEN up_pc' = "done" /\ up_end' = "TimeoutError"
            ELSE up_pc' = "sleep" /\ up_end' = up_end
       ELSE IF file_state = "FAILED"
            THEN up_pc' = "done" /\ up_end' = "RuntimeError"
            ELSE up_pc' = "generate" /\ up_end' = up_end
    /\ UNCHANGED <<notUpload, wait_for_processing, max_wait_seconds, elapsed,
                   file_state, polls, generated>>

\* time.sleep(2); uploaded_file = client.files.get(name=...)
UploadPoll ==
    /\ up_pc = "sleep"
    /\ \E d \in PassSeconds : elapsed' = elapsed + d
    /\ polls' = polls + 1
    /\ \/ /\ file_state' \in FileStates
          /\ up_pc' = "wait"
          /\ up_end' = up_end
       \/ /\ file_state' = file_state
          /\ up_pc' = "done"
          /\ up_end' = "Exception"
    /\ UNCHANGED <<notUpload, wait_for_processing, max_wait_seconds, generated>>

\* response = client.models.generate_content(...); return response.text
UploadGenerate ==
    /\ up_pc = "generate"
    /\ generated' = Append(generated, file_state)
    /\ up_end' \in {"returned", "Exception"}
    /\ up_pc' = "done"
    /\ UNCHANGED <<notUpload, wait_for_processing, max_wait_seconds, elapsed,
                   file_state, polls>>

NextUpload ==
    \/ UploadFile
    \/ UploadCheck
    \/ UploadPoll
    \/ UploadGenerate

\* one call of analyze_audio_upload
StartUpload ==
    InitUpload /\ IdleStream /\ IdleChunked /\ IdleMlx /\ IdleMime
    /\ IdleShell /\ IdleCapture /\ IdleAnalyze /\ IdleOptions

SpecUpload == StartUpload /\ [][NextUpload]_vars

\* ------------------------------------------------------------------------
\* Properties of analyze_audio_upload
\* ------------------------------------------------------------------------

\* C15: with wait_for_processing the function polls only while the file is
\* PROCESSING and the budget is not exceeded; it raises TimeoutError when
\* the file is PROCESSING with the budget exceeded, raises an error when
\* the file is FAILED, and requests generation only for a file that left
\* PROCESSING without failing: never while PROCESSING, never after a timeout.
C15_PollsThenTimesOutOrGenerates ==
    wait_for_processing =>
        /\ up_pc = "sleep" =>
              file_state = "PROCESSING" /\ elapsed <= max_wait_seconds
        /\ up_end = "TimeoutError" =>
              file_state = "PROCESSING" /\ elapsed > max_wait_seconds
        /\ up_end = "RuntimeError" => file_state = "FAILED"
        /\ (up_pc = "done" /\ up_end # "Exception") =>
              /\ file_state = "PROCESSING" => up_end = "TimeoutError"
              /\ file_state = "FAILED" => up_end = "RuntimeError"
        /\ \A i \in 1..Len(generated) : generated[i] = "ACTIVE"
        /\ Len(generated) <= 1
        /\ up_end \in {"TimeoutError", "RuntimeError"} => generated = <<>>
        /\ up_pc = "generate" => file_state = "ACTIVE"

\* C15 witness: the file was still PROCESSING after the budget of 2 s and
\* TimeoutError was raised with no generation requested
C15_Witness ==
    /\ wait_for_processing
    /\ max_wait_seconds = 2
    /\ up_end = "TimeoutError"
    /\ polls >= 1
    /\ generated = <<>>

\* ------------------------------------------------------------------------
\* Properties of the chunked loop: the order of a cycle
\* ------------------------------------------------------------------------

\* the phase changes a cycle may make; an interrupt or an error of the
\* capture ends the loop instead
CycleOrder ==
    {<<"Setup", "Recording">>, <<"Recording", "Transcribing">>,
     <<"Transcribing", "Rendering">>, <<"Rendering", "Recording">>}

LoopExits ==
    {<<"Setup", "Raised">>, <<"Recording", "Raised">>,
     <<"Recording", "Stopped">>, <<"Transcribing", "Stopped">>,
     <<"Rendering", "Stopped">>}

\* C16: every cycle goes Recording, Transcribing, Rendering in that order,
\* none skipped or repeated, and has rendered exactly one of text,
\* "(silence)" or an error for its own window before the next Recording.
C16_CycleInOrderRendersOnce ==
    /\ [][phase' # phase => <<phase, phase'>> \in CycleOrder \cup LoopExits]_vars
    /\ [](/\ \A i \in 1..Len(rendered) :
               /\ rendered[i].win = i
               /\ rendered[i].kind \in {"text", "silence", "error"}
          /\ phase = "Recording" => Len(rendered) = nWindows /\ window = 0
          /\ phase \in {"Transcribing", "Rendering"} =>
               /\ window = nWindows
               /\ Len(rendered) = nWindows - 1
          /\ phase = "Rendering" => Len(submitted) = nWindows
          /\ phase = "Transcribing" => Len(submitted) = nWindows - 1)

\* C16 witness: two full cycles are done and a third Recording has begun
C16_Witness ==
    /\ phase = "Recording"
    /\ nWindows = 2
    /\ Len(rendered) = 2
    /\ rendered[1].win = 1
    /\ rendered[2].win = 2

\* ------------------------------------------------------------------------
\* Properties of the chunked loop: one window, no overlap
\* ------------------------------------------------------------------------

\* C17: at most one window is in hand, each window is submitted to exactly
\* one transcription call, and capture and transcription never overlap:
\* the stream of record_chunk is closed, and record_chunk is not running,
\* whenever a window is being transcribed or rendered.
C17_OneWindowNoOverlap ==
    /\ \A i \in 1..Len(submitted) : submitted[i] = i
    /\ Len(submitted) <= nWindows
    /\ window \in {0, nWindows}
    /\ phase \in {"Transcribing", "Rendering"} =>
          /\ window # 0
          /\ rec = "idle"
          /\ mic = "closed"
          /\ pyaLive = 0
    /\ (mic = "open" \/ rec # "idle") => phase = "Recording" /\ window = 0

\* C17 witness: the second window is about to be transcribed, the stream
\* that captured it closed, the first window submitted once
C17_Witness ==
    /\ phase = "Transcribing"
    /\ window = 2
    /\ mic = "closed"
    /\ submitted = <<1>>

\* ------------------------------------------------------------------------
\* Properties of the streaming receive task: the flush
\* ------------------------------------------------------------------------

\* the response carries the turn-completion marker
TurnComplete(resp) == resp.sc /\ resp.tc

\* the response adds a fragment to the buffer
CarriesText(resp) == resp.sc /\ resp.it /\ resp.text # <<>>

\* C18: a turn-completion marker met with a non-empty buffer emits exactly
\* one finalized line and leaves the buffer empty and last_line_length 0;
\* met with an empty buffer it emits nothing and changes no state of the
\* receive task; a response carrying a fragment and the marker has the
\* fragment in the line it finalizes; without the marker no line is emitted.
C18_TurnCompleteFlushesOnce ==
    [][recv = "receive" =>
         LET resp == response'
         IN  /\ (TurnComplete(resp) /\ (text_buffer # <<>> \/ CarriesText(resp))) =>
                   /\ Len(lines') = Len(lines) + 1
                   /\ SubSeq(lines', 1, Len(lines)) = lines
                   /\ text_buffer' = <<>>
                   /\ last_line_length' = 0
                   /\ lines'[Len(lines')] =
                        Strip(Join(text_buffer)
                                \o (IF CarriesText(resp) THEN resp.text ELSE <<>>))
             /\ (TurnComplete(resp) /\ text_buffer = <<>> /\ ~CarriesText(resp)) =>
                   UNCHANGED <<lines, text_buffer, last_line_length, status_line>>
             /\ ~TurnComplete(resp) => lines' = lines
    ]_vars

\* C18 witness: one response carried " b" and the marker while the buffer
\* held "a", and the line "a b" was finalized
C18_Witness ==
    /\ response = [sc |-> TRUE, it |-> TRUE, text |-> <<" ", "b">>, tc |-> TRUE]
    /\ lines = << <<"a", " ", "b">> >>
    /\ arrivedLog = << <<<<"a">>, <<" ", "b">>>> >>
    /\ text_buffer = <<>>
    /\ last_line_length = 0

\* ------------------------------------------------------------------------
\* Properties of the streaming pipeline: order of the chunks, the stream
\* ------------------------------------------------------------------------

\* C19: the chunks forwarded to the session are always a prefix of the
\* chunks read by the capture task: in capture order, each once, none
\* skipped.
C19_ForwardedIsPrefixOfCaptured ==
    /\ Len(forwarded) <= captured
    /\ \A i \in 1..Len(forwarded) : forwarded[i] = i

\* C19 witness: three chunks are forwarded while more have been read and
\* wait in the queue
C19_Witness ==
    /\ main = "running"
    /\ forwarded = <<1, 2, 3>>
    /\ Len(audio_queue) >= 2
    /\ captured >= 5

\* C20: no two operations on the microphone stream are in progress at the
\* same time: while a worker thread runs the blocking read started by the
\* capture task, the stream is open, no teardown having closed it.
C20_StreamNotClosedDuringRead ==
    thread = "read" => stream = "open"

\* ------------------------------------------------------------------------
\* run_mlx_transcription with the call of transcribe_audio_bytes_mlx
\* unfolded into its steps
\* ------------------------------------------------------------------------

\* the model outputs tried in the loop: no text, a word, a filler phrase
LoopOutputs ==
    {[has_text |-> FALSE, text |-> <<>>],
     [has_text |-> TRUE, text |-> <<"k">>],
     [has_text |-> TRUE, text |-> <<" ", "O", "k">>]}

\* text = transcribe_audio_bytes_mlx(audio_data, model=model): the call
MlxCallBegin ==
    /\ phase = "Transcribing"
    /\ backend = "mlx"
    /\ mlx_pc = "idle"
    /\ submitted' = Append(submitted, window)
    /\ mlx_pc' = "start"
    /\ temp_file' = "none"
    /\ model_output' \in LoopOutputs
    /\ mlx_return' = <<>>
    /\ mlx_end' = "none"
    /\ UNCHANGED <<streamVars, mimeVars, shellVars, fileVars, optVars, backend, groqKey,
                   phase, rec, pyaLive, mic, window, nWindows, result,
                   rendered, deviceUsed, interrupted, raised>>

\* the call returns its text, or its exception is caught by the
\* except Exception of the iteration
MlxCallEnd ==
    /\ phase = "Transcribing"
    /\ mlx_pc = "done"
    /\ result' = IF mlx_end = "returned"
                 THEN [err |-> FALSE, text |-> mlx_return]
                 ELSE [err |-> TRUE, text |-> <<>>]
    /\ phase' = "Rendering"
    /\ mlx_pc' = "idle"
    /\ UNCHANGED <<streamVars, mimeVars, shellVars, fileVars, optVars, backend, groqKey,
                   rec, pyaLive, mic, window, nWindows, submitted, rendered,
                   deviceUsed, interrupted, raised, temp_file, model_output,
                   mlx_return, mlx_end>>

\* KeyboardInterrupt inside the call: the finally of the function deletes
\* the file only when the try had been entered; except Exception lets the
\* interrupt pass, and the outer handler of the loop stops the session
MlxCallInterrupt ==
    /\ phase = "Transcribing"
    /\ mlx_pc \in {"start", "create", "write", "infer", "filter"}
    /\ temp_file' = IF mlx_pc \in {"infer", "filter"} THEN "deleted" ELSE temp_file
    /\ mlx_pc' = "done"
    /\ mlx_end' = "KeyboardInterrupt"
    /\ phase' = "Stopped"
    /\ interrupted' = TRUE
    /\ UNCHANGED <<streamVars, mimeVars, shellVars, fileVars, optVars, backend, groqKey,
                   rec, pyaLive, mic, window, nWindows, result, submitted,
                   rendered, deviceUsed, raised, model_output, mlx_return>>

\* KeyboardInterrupt outside the call
LoopInterrupt ==
    /\ mlx_pc \in {"idle", "done"}
    /\ KeyboardInterrupt

NextMlxLoop ==
    \/ Setup
    \/ RecordStart
    \/ RecordLookup
    \/ RecordOpen
    \/ RecordRead
    \/ MlxCallBegin
    \/ MlxImport
    \/ MlxCreateTemp
    \/ MlxWrite
    \/ MlxInfer
    \/ MlxFilterReturn
    \/ MlxCallEnd
    \/ MlxCallInterrupt
    \/ Render
    \/ LoopInterrupt

\* run_live_transcription(backend="mlx")
StartMlxLoop == StartChunked /\ backend = "mlx"

SpecMlxLoop == StartMlxLoop /\ [][NextMlxLoop]_vars

\* C21: an operator interrupt in Recording, Transcribing or Rendering leads
\* to Stopped, the loop starting no other Recording; when the session has
\* stopped, the PyAudio instance of an interrupted capture is terminated and
\* the temporary file of an interrupted local-model transcription is deleted.
C21_InterruptStopsAndCleansUp ==
    /\ (interrupted /\ raised.from # "setup") => phase = "Stopped"
    /\ phase = "Stopped" =>
          /\ interrupted
          /\ rec = "idle"
          /\ pyaLive = 0
          /\ mic # "open"
          /\ mlx_end = "KeyboardInterrupt" => temp_file # "exists"

\* C22: every PyAudio instance created by a live session is terminated on
\* every exit path of the function that created it: when the streaming
\* session has ended (returned or raised) its instance is not left
\* initialised, and when the chunked session has ended (Stopped or Raised)
\* no instance is left alive.
C22_EveryPyAudioTerminated ==
    /\ main \in {"stopped", "raised"} => pya # "init"
    /\ phase \in {"Stopped", "Raised"} => pyaLive = 0

\* C23: when one of the three tasks of the streaming session has failed and
\* the session function has ended, it has ended by raising the failure (an
\* exception group, never a normal return), every task is failed or
\* cancelled, the stream assigned to audio_stream is closed, no stream is
\* open and PyAudio is terminated; after the function has ended no task
\* changes state any more.
C23_TaskFailurePropagates ==
    /\ []((TaskFailed /\ main \in {"stopped", "raised"})
            => /\ main = "raised"
               /\ outcome = "ExceptionGroup"
               /\ {listen, send, recv} \subseteq {"failed", "cancelled"}
               /\ (audio_stream = "set" => stream = "closed")
               /\ stream # "open"
               /\ pya = "terminated")
    /\ [][(main \in {"stopped", "raised"})
            => (listen' = listen /\ send' = send /\ recv' = recv)]_vars

\* C23 witness: the send call failed while capture and receive were running;
\* both were cancelled, the stream closed and the failure raised
C23_Witness ==
    /\ main = "raised"
    /\ send = "failed"
    /\ listen = "cancelled"
    /\ recv = "cancelled"
    /\ audio_stream = "set"
    /\ stream = "closed"
    /\ pya = "terminated"

\* ------------------------------------------------------------------------
\* main.py: handle_live / handle_live_file, the parsing of the options and
\* the call of run_live_transcription / transcribe_file
\* ------------------------------------------------------------------------

\* longest argument list tried
MaxOptions == 3

MLX_MODEL_TURBO == "mlx-community/whisper-large-v3-turbo"
MLX_MODEL_MEDIUM == "mlx-community/whisper-medium-mlx"
MLX_MODEL_SMALL == "mlx-community/whisper-small-mlx"
GROQ_MODEL_TURBO == "whisper-large-v3-turbo"
GROQ_MODEL_LARGE == "whisper-large-v3"

MlxModels == {MLX_MODEL_TURBO, MLX_MODEL_MEDIUM, MLX_MODEL_SMALL}
GroqModels == {GROQ_MODEL_TURBO, GROQ_MODEL_LARGE}

\* the words an argument may be: every option either command knows, and a
\* file name
OptionWords ==
    {"--gemini", "-g", "gemini", "--groq", "-q", "groq", "--mlx", "-m", "mlx",
     "--verbose", "-v", "--medium", "--small", "--turbo", "a.wav"}

OptionLists == UNION {[1..n -> OptionWords] : n \in 0..MaxOptions}

\* the backend an argument selects in the given command, "" when none
BackendOfFlag(cmd, arg) ==
    IF cmd = "live" /\ arg \in {"--gemini", "-g", "gemini"} THEN "gemini"
    ELSE IF arg \in {"--groq", "-q"} \/ (cmd = "live" /\ arg = "groq") THEN "groq"
    ELSE IF arg \in {"--mlx", "-m"} \/ (cmd = "live" /\ arg = "mlx") THEN "mlx"
    ELSE ""

\* the model an argument selects, "" when none; in handle_live the model
\* options are looked at only when the argument is no backend or verbose
\* option, which they never are
ModelOfFlag(arg) ==
    IF arg = "--medium" THEN MLX_MODEL_MEDIUM
    ELSE IF arg = "--small" THEN MLX_MODEL_SMALL
    ELSE IF arg = "--turbo" THEN MLX_MODEL_TURBO
    ELSE ""

\* model or default
OrDefault(model, default) == IF model = "" THEN default ELSE model

\* the model name the dispatcher hands to the backend function
ModelPassed(b, model) ==
    IF b = "mlx" THEN OrDefault(model, MLX_MODEL_TURBO)
    ELSE IF b = "groq" THEN OrDefault(model, GROQ_MODEL_TURBO)
    ELSE ""

\* the backend function reached from the command
BackendFunction(cmd, b) ==
    IF cmd = "live"
    THEN CASE b = "mlx" -> "run_mlx_transcription"
           [] b = "groq" -> "run_groq_transcription"
           [] OTHER -> "run_gemini_transcription"
    ELSE CASE b = "mlx" -> "transcribe_file_mlx"
           [] OTHER -> "transcribe_file_groq"

InitOptions ==
    /\ opt_cmd \in {"live", "live_file"}
    /\ opt_args \in OptionLists
    /\ opt_pc = "start"
    /\ opt_i = 0
    /\ opt_backend = ""
    /\ opt_model = ""
    /\ called = [fn |-> "none", backend |-> "", model |-> ""]

\* the defaults; handle_live_file without arguments prints its usage and
\* returns, otherwise takes args[0] as the file and parses args[1:]
OptionDefaults ==
    /\ opt_pc = "start"
    /\ IF opt_cmd = "live_file" /\ opt_args = <<>>
       THEN /\ opt_pc' = "done"
            /\ UNCHANGED <<opt_i, opt_backend, opt_model>>
       ELSE /\ opt_pc' = "parse"
            /\ opt_i' = IF opt_cmd = "live" THEN 1 ELSE 2
            /\ opt_backend' = "mlx"
            /\ opt_model' = MLX_MODEL_TURBO
    /\ UNCHANGED <<notOptions, opt_cmd, opt_args, called>>

\* one turn of for arg in args
OptionParse ==
    /\ opt_pc = "parse"
    /\ opt_i <= Len(opt_args)
    /\ LET arg == opt_args[opt_i]
       IN /\ opt_backend' = IF BackendOfFlag(opt_cmd, arg) # ""
                            THEN BackendOfFlag(opt_cmd, arg)
                            ELSE opt_backend
          /\ opt_model' = IF ModelOfFlag(arg) # "" THEN ModelOfFlag(arg) ELSE opt_model
    /\ opt_i' = opt_i + 1
    /\ UNCHANGED <<notOptions, opt_cmd, opt_args, opt_pc, called>>

\* run_live_transcription(backend=backend, model=model, verbose=verbose) /
\* transcribe_file(file_path, backend=backend, model=model), and the call
\* of the backend function inside it
OptionCall ==
    /\ opt_pc = "parse"
    /\ opt_i > Len(opt_args)
    /\ called' = [fn |-> BackendFunction(opt_cmd, opt_backend),
                  backend |-> opt_backend,
                  model |-> ModelPassed(opt_backend, opt_model)]
    /\ opt_pc' = "done"
    /\ UNCHANGED <<notOptions, opt_cmd, opt_args, opt_i, opt_backend, opt_model>>

NextOptions ==
    \/ OptionDefaults
    \/ OptionParse
    \/ OptionCall

StartOptions ==
    InitOptions /\ IdleStream /\ IdleChunked /\ IdleMlx /\ IdleMime
    /\ IdleShell /\ IdleFiles

SpecOptions == StartOptions /\ [][NextOptions]_vars

\* the arguments the command looks at for options
OptionPositions ==
    IF opt_cmd = "live" THEN 1..Len(opt_args) ELSE 2..Len(opt_args)

\* the positions holding a backend option
BackendPositions ==
    {i \in OptionPositions : BackendOfFlag(opt_cmd, opt_args[i]) # ""}

\* the backend named by the last backend option, "mlx" without one
LastBackend ==
    IF BackendPositions = {}
    THEN "mlx"
    ELSE BackendOfFlag(opt_cmd,
            opt_args[CHOOSE i \in BackendPositions :
                        \A j \in BackendPositions : j <= i])

\* C24: for every argument list of live and live_file, the backend called
\* is the one named by the last backend option, the Groq backend is called
\* with a Groq model name and the MLX backend with an MLX model name.
C24_ModelBelongsToBackend ==
    called.fn # "none"
        => /\ called.backend = LastBackend
           /\ called.backend = "groq" => called.model \in GroqModels
           /\ called.backend = "mlx" => called.model \in MlxModels

\* ------------------------------------------------------------------------
\* The streaming session under fair scheduling: capture and send tasks,
\* the receive task reduced to its failure
\* ------------------------------------------------------------------------

NextPipeline ==
    \/ GeminiStart
    \/ GetGeminiClient
    \/ Connect
    \/ ListenLookup
    \/ ThreadOpenDone
    \/ ThreadReadDone
    \/ ListenPut
    \/ SendGet
    \/ SendDone
    \/ ReceiveFail
    \/ Interrupt
    \/ TaskGroupExit
    \/ FinallyBlock

\* the blocking read returns a chunk
ReadReturns == ThreadReadDone /\ captured' = captured + 1

\* the event loop runs every task that is ready, the worker threads run,
\* a send call that has been started completes, and a blocking read of the
\* microphone returns while there is audio to capture; the operator and
\* the failures of the device and of the network are under no obligation
Fairness ==
    /\ WF_vars(ListenLookup)
    /\ WF_vars(ThreadOpenDone)
    /\ WF_vars(ReadReturns)
    /\ WF_vars(ListenPut)
    /\ WF_vars(SendGet)
    /\ WF_vars(SendDone)
    /\ WF_vars(TaskGroupExit)
    /\ WF_vars(FinallyBlock)

SpecPipelineFair == StartStream /\ [][NextPipeline]_vars /\ Fairness

InQueue(c) == \E i \in 1..Len(audio_queue) : audio_queue[i] = c

Forwarded(c) == \E i \in 1..Len(forwarded) : forwarded[i] = c

CaptureBlocked == listen = "putting" /\ Len(audio_queue) = QueueMaxSize

SendBlocked == send = "get" /\ audio_queue = <<>>

\* C25 as stated: under fair scheduling of the tasks, with every send call
\* completing, every chunk put into the audio queue is eventually forwarded
\* to the session; capture blocked on a full queue is released by send,
\* send blocked on an empty queue is released by capture, and the two are
\* never blocked at the same time.
C25_QueuedChunksForwarded ==
    /\ \A c \in 1..MaxChunks : InQueue(c) ~> Forwarded(c)
    /\ CaptureBlocked ~> ~CaptureBlocked
    /\ (SendBlocked /\ captured < MaxChunks) ~> ~SendBlocked
    /\ [](~(CaptureBlocked /\ SendBlocked))

\* C25 amended: under fair scheduling of the tasks, with every send call
\* completing, every chunk put into the audio queue is eventually forwarded
\* to the session unless the session stops running first (an operator
\* interrupt or the failure of a task, after which the queued chunks are
\* dropped); capture blocked on a full queue is released by send, send
\* blocked on an empty queue is released by capture, and the two are never
\* blocked at the same time.
C25_QueuedChunksForwardedWhileRunning ==
    /\ \A c \in 1..MaxChunks :
          InQueue(c) ~> (Forwarded(c) \/ main # "running")
    /\ CaptureBlocked ~> ~CaptureBlocked
    /\ (SendBlocked /\ captured < MaxChunks) ~> ~SendBlocked
    /\ [](~(CaptureBlocked /\ SendBlocked))

\* C25 witness: the session still running with the capture task having been
\* blocked on the full queue and every captured chunk forwarded in order
C25_Witness ==
    /\ main = "running"
    /\ captured = MaxChunks
    /\ Len(forwarded) = MaxChunks
    /\ audio_queue = <<>>
    /\ send = "get"
    /\ ~TaskFailed

\* C26: in the interactive shell a live session, whichever way an operator
\* interrupt or an error ends it, gives control back to the prompt, and the
\* shell is still running after an interrupted session has printed its
\* last message; an operator interrupt or end-of-input at the prompt (the
\* only place that prints Goodbye on a new line) ends the loop.
C26_InterruptEndsOnlyTheSession ==
    /\ [][(mode = "interactive" /\ shell_pc = "dispatch" /\ command = "live")
            => shell_pc' = "prompt"]_vars
    /\ []((mode = "interactive" /\ printed \in {"stopped", "ended"})
            => shell_pc \in {"prompt", "dispatch"})
    /\ [][(shell_pc = "prompt" /\ printed' = "goodbye on a new line")
            => shell_pc' = "exited"]_vars
    /\ [][shell_pc = "exited" => shell_pc' = "exited"]_vars

\* C26 witness: after a session interrupted in its set-up the shell has
\* read another command
C26_Witness ==
    /\ mode = "interactive"
    /\ printed = "ended"
    /\ shell_pc = "dispatch"
    /\ command = "devices"

====
